---- MODULE Spec2Model ----
(***************************************************************************)
(* A model of the ansify colour-quantization engine (src/src/lib.rs):      *)
(* Palette::from, Blocks::from, ANSIfier::new, ANSIfier::process and       *)
(* ANSIfier::generate_lut_and_map, driven the way the command line tool    *)
(* (src/src/ansify-cli/main.rs) and the OBS filter drive them.             *)
(*                                                                         *)
(* f32 values are modelled as exact rationals <<n, d>> (d > 0, reduced):   *)
(* the model follows the arithmetic the code writes down and leaves the    *)
(* rounding of IEEE single precision out.  u8 and u32 values keep their    *)
(* width: casts truncate, the u8 glyph counter overflows at 256.           *)
(* The k-d tree (crate kd_tree) is modelled by its contract: it holds the  *)
(* items it was built from, and nearest() returns None on an empty tree    *)
(* and otherwise one item at minimal squared Euclidean distance.           *)
(***************************************************************************)
EXTENDS Integers, Sequences, FiniteSets, TLC

VARIABLES
    palette_file,   \* what the palette path holds: missing, or a colour list
    blocks_file,    \* what the blocks path holds: missing, or a Blocks record
    pc,             \* where the caller is: load_palette, load_blocks, new,
                    \*   ready, returned (a call on the ANSIfier returned),
                    \*   exit_err (an Err was returned), panicked
    palette,        \* Result of Palette::from
    blocks,         \* Result of Blocks::from
    ansifier,       \* Option of the ANSIfier
    ret,            \* what the last call on the ANSIfier returned
    kept,           \* Option of the (lut, map) the caller kept from its first
                    \*   successful generate_lut_and_map
    par,            \* Option of the locals of a running
                    \*   par_generate_lut_and_map: the index, the two images
                    \*   behind their mutexes, the work not yet done
    filter,         \* Option of the ANSIfyFilter of the OBS plugin: its
                    \*   ansifier_data, width and two path settings
    called,         \* the most recent create or update call on the filter:
                    \*   its settings, whether its paths are those of the
                    \*   update before it, whether it assigned ansifier_data
    webcam          \* Option of the locals of the webcam loop of the CLI:
                    \*   encoder, last_frame, and the frames the window and
                    \*   the GIF file have received

vars ==
    <<palette_file, blocks_file, pc, palette, blocks, ansifier, ret, kept, par,
      filter, called, webcam>>

----------------------------------------------------------------------------
(* Bounds of the explored inputs *)

MaxPaletteLen == 3      \* small palettes have 0..MaxPaletteLen colours
MaxGlyphs == 2          \* small glyph sets have 0..MaxGlyphs glyphs
MaxImgSide == 2         \* images are 0..MaxImgSide pixels wide and high
MaxTieBreaks == 2       \* tie-break rules of a k-d tree that are explored
MaxFrames == 4          \* the camera delivers at most MaxFrames frames

(* Program constants *)

U8Range == 256          \* values of a u8: casts `as u8` and the u8 counter
MaxPaletteColors == 256
MaxBlocks == 256
MaxCellBits == 32
LutSize == 4096
MapWidth == 256
MapHeight == 2
Alpha == 255
ChannelMax == 255
SentinelId == 0
MaxChar == 1114111       \* char::MAX, U+10FFFF

----------------------------------------------------------------------------
(* Exact rationals <<n, d>>, d > 0, in lowest terms, standing for f32 *)

Abs(x) == IF x < 0 THEN -x ELSE x

RECURSIVE Gcd(_, _)
Gcd(a, b) == IF b = 0 THEN a ELSE Gcd(b, a % b)

Rat(n, d) ==
    LET g == Gcd(Abs(n), d)
    IN  <<n \div g, d \div g>>

Lcm(a, b) == (a \div Gcd(a, b)) * b

RAdd(a, b) ==
    LET l == Lcm(a[2], b[2])
    IN  Rat(a[1] * (l \div a[2]) + b[1] * (l \div b[2]), l)

RSub(a, b) == RAdd(a, <<-b[1], b[2]>>)

RMul(a, b) ==
    LET x == Rat(a[1], b[2])
        y == Rat(b[1], a[2])
    IN  <<x[1] * y[1], x[2] * y[2]>>

RLess(a, b) ==
    LET l == Lcm(a[2], b[2])
    IN  a[1] * (l \div a[2]) < b[1] * (l \div b[2])

ROne == <<1, 1>>
RZero == <<0, 1>>

(* `v as f32 / 255.0` for a u8 or u32 v *)
Unit(v) == Rat(v, ChannelMax)

(* `v as u8` *)
AsU8(v) == v % U8Range

None == [tag |-> "None"]
Some(v) == [tag |-> "Some", val |-> v]
Ok(v) == [tag |-> "Ok", val |-> v]
Err == [tag |-> "Err"]

----------------------------------------------------------------------------
(* The inputs explored: file contents, images, LUT addresses *)

ColorK == <<0, 0, 0>>
ColorA == <<200, 100, 40>>
ColorM == <<100, 50, 20>>       \* the midpoint of ColorK and ColorA
ColorW == <<255, 255, 255>>

PaletteColors == <<ColorK, ColorA, ColorM>>

(* n colours of PaletteColors, from the one at start in steps of step: every
   palette of up to two colours, the constant ones and the orders of all
   three among them *)
PaletteOf(n, start, step) ==
    [i \in 1..n |->
        PaletteColors[((start + step * (i - 1)) % Len(PaletteColors)) + 1]]

(* A palette that lists one colour twice, at positions 0 and 2 *)
RepeatPalette == <<ColorK, ColorA, ColorK>>

SmallPalettes ==
    {PaletteOf(n, start, step) :
        n \in 0..MaxPaletteLen,
        start \in 0..(Len(PaletteColors) - 1),
        step \in 0..(Len(PaletteColors) - 1)}
    \cup {RepeatPalette}

(* n pairwise distinct colours *)
WidePalette(n) == [i \in 1..n |-> <<(i - 1) % 256, (i - 1) \div 256, 7>>]

(* n colours, the last one ColorA and all before it ColorK *)
LongPalette(n) == [i \in 1..n |-> IF i = n THEN ColorA ELSE ColorK]

(* A bitmap is a sequence of rows, a row a sequence of booleans; pattern p
   of a w x h cell.  "short" and "tall" do not have the declared size. *)
Bitmap(w, h, p) ==
    CASE p = "empty" -> [y \in 1..h |-> [x \in 1..w |-> FALSE]]
      [] p = "full"  -> [y \in 1..h |-> [x \in 1..w |-> TRUE]]
      [] p = "first" -> [y \in 1..h |-> [x \in 1..w |-> x = 1 /\ y = 1]]
      [] p = "top"   -> [y \in 1..h |-> [x \in 1..w |-> y = 1]]
      [] p = "left"  -> [y \in 1..h |-> [x \in 1..w |-> x = 1]]
      [] p = "last"  -> [y \in 1..h |-> [x \in 1..w |-> x = w /\ y = h]]
      [] p = "short" -> [y \in 1..h |-> [x \in 1..(w - 1) |-> FALSE]]
      [] p = "tall"  -> [y \in 1..(h + 1) |-> [x \in 1..w |-> TRUE]]

Patterns == <<"full", "first", "empty", "short", "tall">>

CellSizes == {<<2, 1>>}

(* struct Blocks as deserialized: characters are their code points *)
BlocksOf(w, h, pat) ==
    [width |-> w, height |-> h,
     blocks |-> [c \in DOMAIN pat |-> Bitmap(w, h, pat[c])]]

(* g glyphs, the characters 3, 5, 7, ..., their patterns taken from Patterns
   at start in steps of step: every set of up to two glyphs among them *)
GlyphsOf(g, start, step) ==
    [c \in {2 * k + 1 : k \in 1..g} |->
        Patterns[((start + step * ((c - 1) \div 2 - 1)) % Len(Patterns)) + 1]]

SmallBlocks ==
    {BlocksOf(s[1], s[2], GlyphsOf(g, start, step)) :
        s \in CellSizes,
        g \in 0..MaxGlyphs,
        start \in 0..(Len(Patterns) - 1),
        step \in 0..(Len(Patterns) - 1)}

(* n glyphs on a 2 x 1 cell, the last one full, the others half covered *)
ManyBlocks(n) ==
    BlocksOf(2, 1, [c \in 1..n |-> IF c = n THEN "full" ELSE "first"])

Missing == [tag |-> "Missing"]
File(v) == [tag |-> "File", val |-> v]

SmallInputs ==
    {<<p, b>> : p \in {Missing} \cup {File(c) : c \in SmallPalettes},
                b \in {Missing} \cup {File(c) : c \in SmallBlocks}}

(* The LUT addresses whose closure calls the model of
   par_generate_lut_and_map interleaves: those of ColorK, ColorA and ColorM *)
ParLutSample == {<<0, 0>>, <<2248, 612>>, <<1124, 306>>}

(* Inputs of par_generate_lut_and_map: palettes of up to MaxPaletteLen
   colours, the empty one among them, with the small glyph sets, and one cell
   of 33 pixels *)
ParPalettes == {PaletteOf(n, 0, 1) : n \in 0..MaxPaletteLen}

ParInputs ==
    {<<File(p), File(b)>> : p \in ParPalettes, b \in SmallBlocks}
    \cup {<<File(<<ColorK, ColorA>>), File(BlocksOf(11, 3, (1 :> "left")))>>}

(* Inputs of calculate_new_dimensions: engines of one colour and one full
   glyph over several cell sizes; original sizes, with empty ones; requests *)
DimsCells == {<<2, 4>>, <<1, 3>>, <<3, 1>>, <<1, 1>>, <<8, 16>>}

DimsInputs ==
    {<<File(<<ColorA>>), File(BlocksOf(s[1], s[2], (1 :> "full")))>> :
        s \in DimsCells}

DimsOriginals == {<<w, h>> : w \in {0, 1, 800}, h \in {0, 5, 600}}

DimsDesired == {None} \cup {Some(v) : v \in {0, 1, 9, 80}}

DimsRequests ==
    {<<o, <<w, h>>>> : o \in DimsOriginals, w \in DimsDesired, h \in DimsDesired}

KeptRequests == {<<<<800, 600>>, <<Some(80), None>>>>}

(* Inputs at and just past the limits of the GPU tables *)
CapacityInputs ==
    {<<File(WidePalette(MaxPaletteColors)),
       File(BlocksOf(1, 1, (1 :> "full")))>>,
     <<File(LongPalette(MaxPaletteColors + 1)),
       File(BlocksOf(2, 1, (1 :> "first") @@ (2 :> "full")))>>}
    \cup
    {<<File(<<ColorA>>), File(ManyBlocks(n))>> :
        n \in {MaxBlocks, MaxBlocks + 1}}
    \cup
    {<<File(<<ColorK, ColorA>>),
       File(BlocksOf(s[1], s[2], (1 :> "left") @@ (2 :> "last") @@ (3 :> "full")))>> :
        s \in {<<8, 4>>, <<11, 3>>}}

PixelColors == <<ColorK, ColorA, ColorM, ColorW>>

(* RgbImage: pixel (x, y), 0-based, of the w x h image that chequers
   colour o + 1 and the next one of PixelColors *)
Image(w, h, o) ==
    [width |-> w, height |-> h,
     px |-> [xy \in (0..(w - 1)) \X (0..(h - 1)) |->
                PixelColors[((o + ((xy[1] + xy[2]) % 2)) % Len(PixelColors)) + 1]]]

Images ==
    {Image(w, h, o) : w \in 0..MaxImgSide, h \in 0..MaxImgSide,
                      o \in {0, 2}}

(* The LUT addresses whose pixels the model materialises: the corners, the
   addresses of ColorA and ColorM, and addresses with one high nibble set,
   (60, 512) being the address of the colour (60, 0, 32) *)
LutSample ==
    {<<0, 0>>, <<4095, 4095>>, <<2248, 612>>, <<1124, 306>>,
     <<3840, 0>>, <<60, 512>>}

----------------------------------------------------------------------------
(* src/src/lib.rs: helpers *)

(* `for k in lo..=hi { st = Step(st, k) }`, split in halves so that the
   evaluation nests only logarithmically deep; the test `left = left` makes
   TLC compute the first half before it starts the second *)
RECURSIVE Loop(_, _, _, _)
Loop(Step(_, _), st, lo, hi) ==
    IF lo > hi THEN st
    ELSE IF lo = hi THEN Step(st, lo)
    ELSE LET mid == (lo + hi) \div 2
             left == Loop(Step, st, lo, mid)
         IN  IF left = left THEN Loop(Step, left, mid + 1, hi) ELSE st

SumSeq(s) == Loop(LAMBDA acc, k : acc + s[k], 0, 1, Len(s))

(* The characters of S within lo..hi in ascending order *)
RECURSIVE Ascending(_, _, _)
Ascending(S, lo, hi) ==
    IF S = {} THEN <<>>
    ELSE IF lo = hi THEN <<lo>>
    ELSE LET mid == (lo + hi) \div 2
         IN  Ascending({c \in S : c <= mid}, lo, mid)
             \o Ascending({c \in S : c > mid}, mid + 1, hi)

(* The keys of a BTreeMap<char, _> in iteration order: by code point *)
Keys(S) == Ascending(S, 0, MaxChar)

count_foreground_pixels(bitmap) ==
    SumSeq([y \in 1..Len(bitmap) |->
              SumSeq([x \in 1..Len(bitmap[y]) |->
                        IF bitmap[y][x] THEN 1 ELSE 0])])

blend_two_colors(color_a, color_b, ratio) ==
    [c \in 1..3 |->
        RAdd(RMul(color_a[c], ratio), RMul(color_b[c], RSub(ROne, ratio)))]

normalize_color(color) == [c \in 1..3 |-> Unit(color[c])]

(* struct Shade of one (character, bitmap) entry *)
Shade(b, character) ==
    [ratio |-> Rat(count_foreground_pixels(b.blocks[character]),
                   b.width * b.height),
     block |-> character]

Shades(b) ==
    LET ks == Keys(DOMAIN b.blocks)
    IN  [k \in 1..Len(ks) |-> Shade(b, ks[k])]

Texel(fg, bg, block) ==
    [foreground_color |-> AsU8(fg), background_color |-> AsU8(bg),
     block |-> block]

(* The pairs the loops would keep if the skip compared the positions,
   `if i == j { continue; }`, instead of the colours *)
BlendPairsById(colors) ==
    LET n == Len(colors)
        all == [k \in 1..(n * n) |-> <<(k - 1) \div n, (k - 1) % n>>]
    IN  SelectSeq(all, LAMBDA p : p[1] # p[2])

(* The (i, j) the two nested enumerate() loops visit and do not skip *)
BlendPairs(colors) ==
    LET n == Len(colors)
        all == [k \in 1..(n * n) |-> <<(k - 1) \div n, (k - 1) % n>>]
    IN  SelectSeq(all, LAMBDA p : colors[p[1] + 1] # colors[p[2] + 1])

(* The texels one iteration of `for shade in shades.iter()` pushes *)
ShadeTexels(colors, shade) ==
    IF shade.ratio = RZero
    THEN [k \in 1..Len(colors) |->
            <<normalize_color(colors[k]),
              Texel(SentinelId, k - 1, shade.block)>>]
    ELSE IF shade.ratio = ROne
    THEN [k \in 1..Len(colors) |->
            <<normalize_color(colors[k]),
              Texel(k - 1, SentinelId, shade.block)>>]
    ELSE LET ps == BlendPairs(colors)
         IN  [k \in 1..Len(ps) |->
                <<blend_two_colors(normalize_color(colors[ps[k][1] + 1]),
                                   normalize_color(colors[ps[k][2] + 1]),
                                   shade.ratio),
                  Texel(ps[k][1], ps[k][2], shade.block)>>]

(* `for shade in shades.iter()`: the Vec texels after the loop *)
Texels(colors, shades) ==
    Loop(LAMBDA texels, k : texels \o ShadeTexels(colors, shades[k]),
         <<>>, 1, Len(shades))

(* KdMap::build_by_ordered_float: the tree holds exactly the items given.
   Which of several nearest items a query finds is fixed by the layout of
   the tree, which the crate decides: `tie` stands for it.  Of the nearest
   items, in the order they were given, the search returns the one at
   position tie (counted from 0, modulo their number). *)
KdBuild(texels, tie) == [items |-> texels, tie |-> tie]

TieBreaks(texels) ==
    0..(IF Len(texels) = 0 THEN 0
        ELSE IF Len(texels) < MaxTieBreaks THEN Len(texels) - 1
        ELSE MaxTieBreaks - 1)

(* The Vec texels that ANSIfier::new hands to the tree *)
NewTexels(p, b) == Texels(p.colors, Shades(b))

ANSIfier(p, b, tie) ==
    [palette |-> p, blocks |-> b,
     kdtree |-> KdBuild(NewTexels(p, b), tie)]

(* Squared Euclidean distance of two points *)
SqDist(a, b) ==
    LET d(c) == RSub(a[c], b[c])
    IN  RAdd(RAdd(RMul(d(1), d(1)), RMul(d(2), d(2))), RMul(d(3), d(3)))

(* The squared distances of q to the items, in their order *)
Distances(items, q) ==
    Loop(LAMBDA ds, k : Append(ds, SqDist(items[k][1], q)),
         <<>>, 1, Len(items))

(* The least of the distances ds, which are not none *)
MinDist(ds) ==
    Loop(LAMBDA best, k : IF RLess(ds[k], best) THEN ds[k] ELSE best,
         ds[1], 2, Len(ds))

(* KdMap::nearest(&q): None on an empty tree, else the item at the least
   squared distance that the layout of the tree prefers *)
Nearest(kd, q) ==
    LET n == Len(kd.items)
    IN  IF n = 0 THEN None
        ELSE LET ds == Distances(kd.items, q)
                 m == MinDist(ds)
                 at == {k \in 1..n : ds[k] = m}
                 before(k) == Cardinality({j \in at : j < k})
             IN  Some(kd.items[CHOOSE k \in at :
                                 before(k) = kd.tie % Cardinality(at)])

(* nearest() is None for every query when, and only when, the tree is empty *)
NearestIsNone(kd) == Len(kd.items) = 0

(* The query as it would be if the channels were read in the order blue,
   green, red *)
QueryBgr(rgb) == [c \in 1..3 |-> Unit(rgb[4 - c])]

(* `[r as f32 / 255.0, g as f32 / 255.0, b as f32 / 255.0]` *)
Query(rgb) == [c \in 1..3 |-> Unit(rgb[c])]

(* `self.kdtree.nearest(&[..]).unwrap().item` for each colour of Q *)
Answers(kd, Q) ==
    LET ans == [rgb \in Q |-> Nearest(kd, Query(rgb)).val]
    IN  IF ans = ans THEN ans ELSE <<>>

----------------------------------------------------------------------------
(* Integers of fixed width *)

RECURSIVE Pow2(_)
Pow2(n) == IF n = 0 THEN 1 ELSE 2 * Pow2(n - 1)

RECURSIVE BitAnd(_, _)
BitAnd(a, b) ==
    IF a = 0 \/ b = 0 THEN 0
    ELSE (a % 2) * (b % 2) + 2 * BitAnd(a \div 2, b \div 2)

RECURSIVE BitOr(_, _)
BitOr(a, b) ==
    IF a = 0 THEN b
    ELSE IF b = 0 THEN a
    ELSE (IF a % 2 = 1 \/ b % 2 = 1 THEN 1 ELSE 0)
         + 2 * BitOr(a \div 2, b \div 2)

Shr(a, n) == a \div Pow2(n)
Shl(a, n) == a * Pow2(n)

(* A u32 as its 32 bits, bit 0 the least significant *)
U32Zero == [t \in 0..31 |-> 0]
U32ShlBit(b, n) == [t \in 0..31 |-> IF t = n THEN b ELSE 0]
U32Or(a, b) == [t \in 0..31 |-> IF a[t] = 1 \/ b[t] = 1 THEN 1 ELSE 0]
(* `((bits >> 8k) & 0xFF) as u8` *)
U32Byte(bits, k) == SumSeq([t \in 1..8 |-> bits[8 * k + t - 1] * Pow2(t - 1)])

----------------------------------------------------------------------------
(* f32 as calculate_new_dimensions uses it: IEEE 754 single precision, every
   operation rounded to nearest, ties to even.  A finite non-zero value is
   [m, e] with 2^23 <= m < 2^24, standing for m * 2^e; the values here are
   never negative, and the exponents stay far from the limits of the format.
   A u32 is the pair <<hi, lo>> of its two 16-bit halves. *)

F32Zero == [kind |-> "zero"]
F32Inf == [kind |-> "inf"]
F32NaN == [kind |-> "nan"]
F32Num(m, e) == [kind |-> "num", m |-> m, e |-> e]

U32(v) == <<v \div 65536, v % 65536>>
U32Max == <<65535, 65535>>

(* m * 2^e for 0 < m < 2^24, brought to 2^23 <= m < 2^24 *)
RECURSIVE F32Normal(_, _)
F32Normal(m, e) ==
    IF m >= 8388608 THEN F32Num(m, e) ELSE F32Normal(2 * m, e - 1)

(* q * 2^e, 2^23 <= q < 2^24, plus a remainder rem of which `half` is one
   half of the last place: rounded to nearest, ties to even *)
F32Round(q, e, rem, half) ==
    LET up == rem > half \/ (rem = half /\ q % 2 = 1)
        r == IF up THEN q + 1 ELSE q
    IN  IF r = 16777216 THEN F32Num(8388608, e + 1) ELSE F32Num(r, e)

(* `v as f32` for a u32 v below 2^24: exact *)
F32FromU32(v) == IF v = 0 THEN F32Zero ELSE F32Normal(v, 0)

(* k more bits of the quotient of the long division by d: <<q, r>> *)
RECURSIVE LongDiv(_, _, _, _)
LongDiv(q, r, d, k) ==
    IF k = 0 THEN <<q, r>>
    ELSE IF 2 * r >= d THEN LongDiv(2 * q + 1, 2 * r - d, d, k - 1)
    ELSE LongDiv(2 * q, 2 * r, d, k - 1)

(* a / b *)
F32Div(a, b) ==
    IF a.kind = "nan" \/ b.kind = "nan" THEN F32NaN
    ELSE IF a.kind = "inf" THEN (IF b.kind = "inf" THEN F32NaN ELSE F32Inf)
    ELSE IF b.kind = "inf" THEN F32Zero
    ELSE IF b.kind = "zero" THEN (IF a.kind = "zero" THEN F32NaN ELSE F32Inf)
    ELSE IF a.kind = "zero" THEN F32Zero
    ELSE LET k == IF a.m >= b.m THEN 23 ELSE 24
             qr == LongDiv(a.m \div b.m, a.m % b.m, b.m, k)
         IN  F32Round(qr[1], a.e - b.e - k, 2 * qr[2], b.m)

(* a * b *)
F32Mul(a, b) ==
    IF a.kind = "nan" \/ b.kind = "nan" THEN F32NaN
    ELSE IF a.kind = "inf" THEN (IF b.kind = "zero" THEN F32NaN ELSE F32Inf)
    ELSE IF b.kind = "inf" THEN (IF a.kind = "zero" THEN F32NaN ELSE F32Inf)
    ELSE IF a.kind = "zero" \/ b.kind = "zero" THEN F32Zero
    ELSE LET ah == a.m \div 4096
             al == a.m % 4096
             bh == b.m \div 4096
             bl == b.m % 4096
             mid == ah * bl + al * bh
             low == (mid % 4096) * 4096 + al * bl
             hi == ah * bh + mid \div 4096 + low \div 16777216
             lo == low % 16777216
         IN  IF hi >= 8388608
             THEN F32Round(hi, a.e + b.e + 24, lo, 8388608)
             ELSE F32Round(2 * hi + lo \div 8388608, a.e + b.e + 23,
                           lo % 8388608, 4194304)

(* A cast that rounds to the nearest integer, halves upward *)
NearestAsU32(x) ==
    IF x.kind = "nan" \/ x.kind = "zero" THEN U32(0)
    ELSE IF x.kind = "inf" THEN U32Max
    ELSE IF x.e >= 9 THEN U32Max
    ELSE IF x.e >= 0
    THEN LET low == (x.m % 65536) * Pow2(x.e)
         IN  <<(x.m \div 65536) * Pow2(x.e) + low \div 65536, low % 65536>>
    ELSE IF x.e < -24 THEN U32(0)
    ELSE U32((x.m + Pow2(-x.e - 1)) \div Pow2(-x.e))

(* `x as u32`: truncates toward zero, saturates, NaN gives 0 *)
F32AsU32(x) ==
    IF x.kind = "nan" \/ x.kind = "zero" THEN U32(0)
    ELSE IF x.kind = "inf" THEN U32Max
    ELSE IF x.e >= 9 THEN U32Max
    ELSE IF x.e >= 0
    THEN LET low == (x.m % 65536) * Pow2(x.e)
         IN  <<(x.m \div 65536) * Pow2(x.e) + low \div 65536, low % 65536>>
    ELSE IF x.e <= -24 THEN U32(0)
    ELSE U32(x.m \div Pow2(-x.e))

----------------------------------------------------------------------------
(* ANSIfier::calculate_new_dimensions; dimensions are pairs of u32, a
   desired dimension is None or Some(u32 below 2^24) *)

Ratio(self, original_dimensions) ==
    F32Div(F32Div(F32FromU32(original_dimensions[1]),
                  F32FromU32(self.blocks.width)),
           F32Div(F32FromU32(original_dimensions[2]),
                  F32FromU32(self.blocks.height)))

(* A resize that keeps the aspect ratio whenever a width is requested *)
KeepAspectDimensions(self, original_dimensions, desired_dimensions) ==
    LET ratio == Ratio(self, original_dimensions)
        width == desired_dimensions[1]
        height == desired_dimensions[2]
    IN  IF width # None
        THEN <<U32(width.val),
               F32AsU32(F32Div(F32FromU32(width.val), ratio))>>
        ELSE IF height # None
        THEN <<F32AsU32(F32Mul(F32FromU32(height.val), ratio)),
               U32(height.val)>>
        ELSE <<U32(original_dimensions[1]), U32(original_dimensions[2])>>

calculate_new_dimensions(self, original_dimensions, desired_dimensions) ==
    LET ratio == Ratio(self, original_dimensions)
        width == desired_dimensions[1]
        height == desired_dimensions[2]
    IN  IF width = None /\ height = None
        THEN <<U32(original_dimensions[1]), U32(original_dimensions[2])>>
        ELSE IF height = None
        THEN <<U32(width.val),
               F32AsU32(F32Div(F32FromU32(width.val), ratio))>>
        ELSE IF width = None
        THEN <<F32AsU32(F32Mul(F32FromU32(height.val), ratio)),
               U32(height.val)>>
        ELSE <<U32(width.val), U32(height.val)>>

----------------------------------------------------------------------------
(* image::ImageBuffer: new() is all zero, put_pixel writes one pixel *)

ImageNew(w, h, zero) ==
    [width |-> w, height |-> h,
     px |-> [xy \in (0..(w - 1)) \X (0..(h - 1)) |-> zero]]

PutPixels(image, writes) ==
    Loop(LAMBDA im, k : [im EXCEPT !.px[writes[k].at] = writes[k].color],
         image, 1, Len(writes))

----------------------------------------------------------------------------
(* ANSIfier::process *)

(* img.enumerate_pixels(): row by row *)
EnumeratePixels(img) ==
    [k \in 1..(img.width * img.height) |->
        <<(k - 1) % img.width, (k - 1) \div img.width>>]

(* The text of one pixel if the line break came before the glyph of the
   first column instead of after the glyph of the last *)
PixelTextBreakFirst(img, x, texel) ==
    (IF x = 0 THEN <<[kind |-> "newline"]>> ELSE <<>>)
    \o <<[kind |-> "glyph", fg |-> texel.foreground_color,
          bg |-> texel.background_color, ch |-> texel.block]>>

(* The text one pixel appends: the painted glyph, then the line break *)
PixelText(img, x, texel) ==
    <<[kind |-> "glyph", fg |-> texel.foreground_color,
       bg |-> texel.background_color, ch |-> texel.block]>>
    \o (IF x + 1 = img.width THEN <<[kind |-> "newline"]>> ELSE <<>>)

(* The put_pixel calls of one pixel if a set bit painted the background *)
PixelWritesInverted(self, x, y, texel) ==
    LET w == self.blocks.width
        h == self.blocks.height
        foreground_color == self.palette.colors[texel.foreground_color + 1]
        background_color == self.palette.colors[texel.background_color + 1]
    IN  [k \in 1..(w * h) |->
            LET i == (k - 1) \div h
                j == (k - 1) % h
            IN  [at |-> <<x * w + i, y * h + j>>,
                 color |-> IF self.blocks.blocks[texel.block][j + 1][i + 1]
                           THEN background_color
                           ELSE foreground_color]]

(* The put_pixel calls of one pixel: i outer, j inner *)
PixelWrites(self, x, y, texel) ==
    LET w == self.blocks.width
        h == self.blocks.height
        foreground_color == self.palette.colors[texel.foreground_color + 1]
        background_color == self.palette.colors[texel.background_color + 1]
    IN  [k \in 1..(w * h) |->
            LET i == (k - 1) \div h
                j == (k - 1) % h
            IN  [at |-> <<x * w + i, y * h + j>>,
                 color |-> IF self.blocks.blocks[texel.block][j + 1][i + 1]
                           THEN foreground_color
                           ELSE background_color]]

(* The body of `for (x, y, pixel) in img.enumerate_pixels()` *)
ProcessStep(self, img, ans, acc, k) ==
    LET pixels == EnumeratePixels(img)
        x == pixels[k][1]
        y == pixels[k][2]
        nearest == ans[img.px[pixels[k]]]
        texel == nearest[2]
    IN  [out |-> PutPixels(acc.out, PixelWrites(self, x, y, texel)),
         text |-> acc.text \o PixelText(img, x, texel),
         nearest |-> Append(acc.nearest, nearest)]

(* The colours process queries the tree with *)
ImageColors(img) == {img.px[xy] : xy \in DOMAIN img.px}

(* process(&self, img) when no unwrap fails *)
ProcessResult(self, img) ==
    LET ans == Answers(self.kdtree, ImageColors(img))
        r == Loop(LAMBDA acc, k : ProcessStep(self, img, ans, acc, k),
                  [out |-> ImageNew(img.width * self.blocks.width,
                                    img.height * self.blocks.height,
                                    <<0, 0, 0>>),
                   text |-> <<>>, nearest |-> <<>>],
                  1, img.width * img.height)
    IN  [tag |-> "Process", img |-> img, out |-> r.out, text |-> r.text,
         nearest |-> r.nearest]

Panic(msg) == [tag |-> "Panic", msg |-> msg]

----------------------------------------------------------------------------
(* ANSIfier::generate_lut_and_map *)

(* The three assert!s at the top *)
TablesAsserts(self) ==
    /\ Len(self.palette.colors) <= MaxPaletteColors
    /\ Cardinality(DOMAIN self.blocks.blocks) <= MaxBlocks
    /\ self.blocks.width * self.blocks.height <= MaxCellBits

(* The step of the index loop if `i += 1` came before the insert: the
   indices would run from 1 *)
IndexStepFromOne(keys, st, k) ==
    [char_to_idx |-> (keys[k] :> AsU8(st.i + 1)) @@ st.char_to_idx,
     idx_to_char |-> Append(st.idx_to_char, keys[k]),
     i |-> AsU8(st.i + 1),
     overflow |-> st.overflow \/ st.i + 1 >= U8Range]

(* `for (key, _val) in &self.blocks.blocks { insert; push; i += 1 }` with
   i: u8.  overflow records that an `i += 1` left the range of u8. *)
IndexStep(keys, st, k) ==
    [char_to_idx |-> (keys[k] :> st.i) @@ st.char_to_idx,
     idx_to_char |-> Append(st.idx_to_char, keys[k]),
     i |-> AsU8(st.i + 1),
     overflow |-> st.overflow \/ st.i + 1 >= U8Range]

(* The index as it would be if the counter i were not started at 0 by every
   call but went on from where the call before left it *)
CharIndexContinued(self) ==
    LET keys == Keys(DOMAIN self.blocks.blocks)
    IN  Loop(LAMBDA st, k : IndexStep(keys, st, k),
             [char_to_idx |-> <<>>, idx_to_char |-> <<>>,
              i |-> IF kept = None THEN 0 ELSE AsU8(Len(keys)),
              overflow |-> FALSE],
             1, Len(keys))

CharIndex(self) ==
    LET keys == Keys(DOMAIN self.blocks.blocks)
    IN  Loop(LAMBDA st, k : IndexStep(keys, st, k),
             [char_to_idx |-> <<>>, idx_to_char |-> <<>>, i |-> 0,
              overflow |-> FALSE],
             1, Len(keys))

(* The colour as it would be if the two nibbles of blue were taken the
   other way round: the low one from y, the high one from x *)
LutColorSwapped(x, y) ==
    LET r == BitAnd(x, 255)
        g == BitAnd(y, 255)
        b == BitOr(BitAnd(Shr(y, 8), 15), Shl(BitAnd(Shr(x, 8), 15), 4))
    IN  <<r, g, b>>

(* The colour the closure of from_fn reconstructs from the address *)
LutColor(x, y) ==
    LET r == BitAnd(x, 255)
        g == BitAnd(y, 255)
        b == BitOr(BitAnd(Shr(x, 8), 15), Shl(BitAnd(Shr(y, 8), 15), 4))
    IN  <<r, g, b>>

LutPixel(self, idx, ans, x, y) ==
    LET nearest == ans[LutColor(x, y)]
        texel == nearest[2]
        block_idx == idx.char_to_idx[texel.block]
    IN  <<AsU8(texel.foreground_color), AsU8(texel.background_color),
          AsU8(block_idx), Alpha>>

LutColors == {LutColor(a[1], a[2]) : a \in LutSample}

(* `bits |= (block[y][x] as u32) << (x + y * self.block_width())`,
   x outer, y inner *)
PackBits(block, w, h) ==
    Loop(LAMBDA bits, k :
            LET x == (k - 1) \div h
                y == (k - 1) % h
            IN  U32Or(bits, U32ShlBit(IF block[y + 1][x + 1] THEN 1 ELSE 0,
                                      x + y * w)),
         U32Zero, 1, w * h)

(* Row 0 as it would be written if the channels of a colour were stored in
   the order blue, green, red *)
MapRow0Bgr(self) ==
    LET colors == self.palette.colors
    IN  [x \in 1..Len(colors) |->
            [at |-> <<x - 1, 0>>,
             color |-> <<colors[x][3], colors[x][2], colors[x][1], Alpha>>]]

(* `for x in 0..self.palette.colors.len()`: the put_pixel calls of row 0 *)
MapRow0(self) ==
    LET colors == self.palette.colors
    IN  [x \in 1..Len(colors) |->
            [at |-> <<x - 1, 0>>,
             color |-> <<colors[x][1], colors[x][2], colors[x][3], Alpha>>]]

(* Row 1 as it would be written if the four bytes of bits were stored most
   significant byte first *)
MapRow1BigEndian(self, idx) ==
    [j \in 1..Len(idx.idx_to_char) |->
        LET bits == PackBits(self.blocks.blocks[idx.idx_to_char[j]],
                             self.blocks.width, self.blocks.height)
        IN  [at |-> <<j - 1, 1>>,
             color |-> <<U32Byte(bits, 3), U32Byte(bits, 2),
                         U32Byte(bits, 1), U32Byte(bits, 0)>>]]

(* `for j in 0..idx_to_char.len()`: the put_pixel calls of row 1 *)
MapRow1(self, idx) ==
    [j \in 1..Len(idx.idx_to_char) |->
        LET bits == PackBits(self.blocks.blocks[idx.idx_to_char[j]],
                             self.blocks.width, self.blocks.height)
        IN  [at |-> <<j - 1, 1>>,
             color |-> <<U32Byte(bits, 0), U32Byte(bits, 1),
                         U32Byte(bits, 2), U32Byte(bits, 3)>>]]

(* The put_pixel calls that fill row 0 and then row 1 of the map *)
MapWrites(self, idx) == MapRow0(self) \o MapRow1(self, idx)

(* generate_lut_and_map(&self) when nothing panics; of the LUT the pixels
   at LutSample are kept *)
TablesResult(self) ==
    LET idx == CharIndex(self)
        ans == Answers(self.kdtree, LutColors)
    IN  [tag |-> "Tables",
         lut |-> [width |-> LutSize, height |-> LutSize,
                  px |-> [a \in LutSample |->
                            LutPixel(self, idx, ans, a[1], a[2])]],
         map |-> PutPixels(ImageNew(MapWidth, MapHeight, <<0, 0, 0, 0>>),
                           MapWrites(self, idx)),
         char_to_idx |-> idx.char_to_idx,
         idx_to_char |-> idx.idx_to_char,
         nearest |-> [a \in LutSample |-> ans[LutColor(a[1], a[2])]]]

----------------------------------------------------------------------------
(* ANSIfier::par_generate_lut_and_map: the closures of its three parallel
   loops, and put_pixel on an image behind a Mutex *)

(* The closure of the LUT loop for the address (x, y): its put_pixel call *)
ParLutWrite(self, idx, x, y) ==
    LET r == BitAnd(x, 255)
        g == BitAnd(y, 255)
        b == BitOr(BitAnd(Shr(x, 8), 15), Shl(BitAnd(Shr(y, 8), 15), 4))
        nearest == Nearest(self.kdtree, Query(<<r, g, b>>)).val
        texel == nearest[2]
        block_idx == idx.char_to_idx[texel.block]
    IN  [at |-> <<x, y>>,
         color |-> <<AsU8(texel.foreground_color), AsU8(texel.background_color),
                     AsU8(block_idx), Alpha>>]

(* The closure of the loop over the palette for x *)
ParRow0Write(self, x) ==
    LET color == self.palette.colors[x + 1]
    IN  [at |-> <<x, 0>>, color |-> <<color[1], color[2], color[3], Alpha>>]

(* The closure of the loop over idx_to_char for j *)
ParRow1Write(self, idx, j) ==
    LET block == self.blocks.blocks[idx.idx_to_char[j + 1]]
        bits == PackBits(block, self.blocks.width, self.blocks.height)
        r == U32Byte(bits, 0)
        g == U32Byte(bits, 1)
        b == U32Byte(bits, 2)
        a == U32Byte(bits, 3)
    IN  [at |-> <<j, 1>>, color |-> <<r, g, b, a>>]

(* A put_pixel without the lock that had read the image before any other
   worker wrote to it: the writes of the others are lost *)
StalePut(image, write) ==
    [image EXCEPT !.px = [at \in DOMAIN image.px |->
                            IF at = write.at THEN write.color
                            ELSE <<0, 0, 0, 0>>]]

(* `mutex.lock().unwrap().put_pixel(..)`: one pixel changes, atomically *)
LockedPut(image, write) ==
    [image EXCEPT !.px[write.at] = write.color]

----------------------------------------------------------------------------
(* The state machine *)

Init ==
    /\ \E in \in SmallInputs \cup CapacityInputs :
            /\ palette_file = in[1]
            /\ blocks_file = in[2]
    /\ pc = "load_palette"
    /\ palette = None
    /\ blocks = None
    /\ ansifier = None
    /\ ret = None
    /\ kept = None
    /\ par = None
    /\ filter = None
    /\ called = None
    /\ webcam = None

(* Palette::from(path): File::open or the parser may fail with an Err *)
Palette_from ==
    /\ pc = "load_palette"
    /\ IF palette_file = Missing
       THEN /\ palette' = Err
            /\ pc' = "exit_err"
       ELSE /\ palette' = Ok([colors |-> palette_file.val])
            /\ pc' = "load_blocks"
    /\ UNCHANGED <<palette_file, blocks_file, blocks, ansifier, ret, kept, par,
                   filter, called, webcam>>

(* The two assert!s of Blocks::from hold for every bitmap *)
DimensionsOk(b) ==
    \A c \in DOMAIN b.blocks :
        /\ Len(b.blocks[c]) = b.height
        /\ \A y \in 1..Len(b.blocks[c]) : Len(b.blocks[c][y]) = b.width

(* Blocks::from(path): Err when the file cannot be opened, a panic when an
   assert! on the dimensions fails *)
Blocks_from ==
    /\ pc = "load_blocks"
    /\ IF blocks_file = Missing
       THEN /\ blocks' = Err
            /\ pc' = "exit_err"
       ELSE IF ~DimensionsOk(blocks_file.val)
       THEN /\ blocks' = Panic("assertion failed")
            /\ pc' = "panicked"
       ELSE /\ blocks' = Ok(blocks_file.val)
            /\ pc' = "new"
    /\ UNCHANGED <<palette_file, blocks_file, palette, ansifier, ret, kept, par,
                   filter, called, webcam>>

(* ANSIfier::new(palette, blocks) *)
new ==
    /\ pc = "new"
    /\ \E tie \in TieBreaks(NewTexels(palette.val, blocks.val)) :
            ansifier' = Some(ANSIfier(palette.val, blocks.val, tie))
    /\ pc' = "ready"
    /\ UNCHANGED <<palette_file, blocks_file, palette, blocks, ret, kept, par,
                   filter, called, webcam>>

(* ansifier.process(&img): `.unwrap()` panics when nearest() is None *)
process ==
    /\ pc = "ready"
    /\ \E img \in Images :
        LET self == ansifier.val
        IN  IF ImageColors(img) # {} /\ NearestIsNone(self.kdtree)
            THEN /\ ret' = Panic("unwrap on a None value")
                 /\ pc' = "panicked"
            ELSE /\ ret' = ProcessResult(self, img)
                 /\ pc' = "returned"
    /\ UNCHANGED <<palette_file, blocks_file, palette, blocks, ansifier, kept, par,
                   filter, called, webcam>>

(* ansifier.generate_lut_and_map(): a failed assert! panics; `i += 1` past
   255 panics in a build with overflow checks and wraps in one without;
   `.unwrap()` panics when nearest() is None *)
generate_lut_and_map ==
    /\ pc = "ready"
    /\ LET self == ansifier.val
       IN  \/ /\ ~TablesAsserts(self)
              /\ ret' = Panic("assertion failed")
              /\ pc' = "panicked"
           \/ /\ TablesAsserts(self)
              /\ CharIndex(self).overflow
              /\ ret' = Panic("attempt to add with overflow")
              /\ pc' = "panicked"
           \/ /\ TablesAsserts(self)
              /\ NearestIsNone(self.kdtree)
              /\ ret' = Panic("unwrap on a None value")
              /\ pc' = "panicked"
           \/ /\ TablesAsserts(self)
              /\ ~NearestIsNone(self.kdtree)
              /\ ret' = TablesResult(self)
              /\ pc' = "returned"
    /\ UNCHANGED <<palette_file, blocks_file, palette, blocks, ansifier, kept, par,
                   filter, called, webcam>>

(* ansifier.calculate_new_dimensions(original, desired), for one of the
   given requests: reads the cell size of the engine, changes nothing *)
new_dimensions(requests) ==
    /\ pc = "ready"
    /\ \E rq \in requests :
        ret' = [tag |-> "Dimensions",
                original |-> rq[1],
                desired |-> rq[2],
                value |-> calculate_new_dimensions(ansifier.val, rq[1], rq[2])]
    /\ pc' = "returned"
    /\ UNCHANGED <<palette_file, blocks_file, palette, blocks, ansifier, kept, par,
                   filter, called, webcam>>

(* par_generate_lut_and_map up to the first parallel loop: the asserts, the
   index, the zeroed LUT behind its mutex; of the LUT the pixels at
   ParLutSample are kept, and the work is one closure call for each of them.
   puts counts the put_pixel calls on the LUT by address, locks the calls of
   lut_mutex.lock() *)
par_generate_lut_and_map ==
    /\ pc = "ready"
    /\ LET self == ansifier.val
       IN  \/ /\ ~TablesAsserts(self)
              /\ ret' = Panic("assertion failed")
              /\ pc' = "panicked"
              /\ par' = par
           \/ /\ TablesAsserts(self)
              /\ CharIndex(self).overflow
              /\ ret' = Panic("attempt to add with overflow")
              /\ pc' = "panicked"
              /\ par' = par
           \/ /\ TablesAsserts(self)
              /\ par' = Some([idx |-> CharIndex(self),
                              lut |-> [width |-> LutSize, height |-> LutSize,
                                       px |-> [a \in ParLutSample |-> <<0, 0, 0, 0>>]],
                              map |-> None,
                              todo |-> ParLutSample,
                              puts |-> [a \in ParLutSample |-> 0],
                              locks |-> 0])
              /\ pc' = "par_lut"
              /\ ret' = ret
    /\ UNCHANGED <<palette_file, blocks_file, palette, blocks, ansifier, kept,
                   filter, called, webcam>>

(* One worker runs the closure of the LUT loop for an address not yet done,
   whichever; `.unwrap()` panics when nearest() is None, and the panic
   leaves the call *)
par_lut_worker ==
    /\ pc = "par_lut"
    /\ \E a \in par.val.todo :
        LET self == ansifier.val
        IN  IF NearestIsNone(self.kdtree)
            THEN /\ ret' = Panic("unwrap on a None value")
                 /\ pc' = "panicked"
                 /\ par' = None
            ELSE /\ par' = Some([par.val EXCEPT
                        !.lut = LockedPut(@, ParLutWrite(self, par.val.idx,
                                                         a[1], a[2])),
                        !.todo = @ \ {a},
                        !.puts[a] = @ + 1,
                        !.locks = @ + 1])
                 /\ pc' = pc
                 /\ ret' = ret
    /\ UNCHANGED <<palette_file, blocks_file, palette, blocks, ansifier, kept,
                   filter, called, webcam>>

(* The LUT loop has joined: the zeroed map behind its mutex, and one closure
   call for each palette position *)
par_lut_join ==
    /\ pc = "par_lut"
    /\ par.val.todo = {}
    /\ par' = Some([par.val EXCEPT
            !.map = ImageNew(MapWidth, MapHeight, <<0, 0, 0, 0>>),
            !.todo = 0..(Len(ansifier.val.palette.colors) - 1)])
    /\ pc' = "par_row0"
    /\ UNCHANGED <<palette_file, blocks_file, palette, blocks, ansifier, ret, kept,
                   filter, called, webcam>>

par_row0_worker ==
    /\ pc = "par_row0"
    /\ \E x \in par.val.todo :
        par' = Some([par.val EXCEPT
            !.map = LockedPut(@, ParRow0Write(ansifier.val, x)),
            !.todo = @ \ {x}])
    /\ UNCHANGED <<palette_file, blocks_file, pc, palette, blocks, ansifier, ret, kept,
                   filter, called, webcam>>

(* The loop over the palette has joined: one closure call for each glyph
   index *)
par_row0_join ==
    /\ pc = "par_row0"
    /\ par.val.todo = {}
    /\ par' = Some([par.val EXCEPT
            !.todo = 0..(Len(par.val.idx.idx_to_char) - 1)])
    /\ pc' = "par_row1"
    /\ UNCHANGED <<palette_file, blocks_file, palette, blocks, ansifier, ret, kept,
                   filter, called, webcam>>

par_row1_worker ==
    /\ pc = "par_row1"
    /\ \E j \in par.val.todo :
        par' = Some([par.val EXCEPT
            !.map = LockedPut(@, ParRow1Write(ansifier.val, par.val.idx, j)),
            !.todo = @ \ {j}])
    /\ UNCHANGED <<palette_file, blocks_file, pc, palette, blocks, ansifier, ret, kept,
                   filter, called, webcam>>

(* The last loop has joined: `(lut_mutex.into_inner().unwrap(),
   map_mutex.into_inner().unwrap())` *)
par_return ==
    /\ pc = "par_row1"
    /\ par.val.todo = {}
    /\ ret' = [tag |-> "ParTables", lut |-> par.val.lut, map |-> par.val.map]
    /\ par' = None
    /\ pc' = "returned"
    /\ UNCHANGED <<palette_file, blocks_file, palette, blocks, ansifier, kept,
                   filter, called, webcam>>

(* The caller has used what the call returned (saved, shown, encoded or
   uploaded it) and goes on to its next call *)
consume ==
    /\ pc = "returned"
    /\ ret' = None
    /\ pc' = "ready"
    /\ UNCHANGED <<palette_file, blocks_file, palette, blocks, ansifier, kept, par,
                   filter, called, webcam>>

Next ==
    \/ Palette_from
    \/ Blocks_from
    \/ new
    \/ process
    \/ generate_lut_and_map
    \/ consume

Spec == Init /\ [][Next]_vars

(* The caller goes on to its next call as in consume, and keeps the two
   textures of the first generate_lut_and_map that returned them, to compare
   what later calls return with them *)
keep ==
    /\ pc = "returned"
    /\ kept' = IF ret.tag = "Tables" /\ kept = None
               THEN Some([lut |-> ret.lut, map |-> ret.map])
               ELSE kept
    /\ ret' = None
    /\ pc' = "ready"
    /\ UNCHANGED <<palette_file, blocks_file, palette, blocks, ansifier, par,
                   filter, called, webcam>>

(* A caller that calls generate_lut_and_map repeatedly, with process calls
   in between *)
NextKept ==
    \/ Palette_from
    \/ Blocks_from
    \/ new
    \/ process
    \/ new_dimensions(KeptRequests)
    \/ generate_lut_and_map
    \/ keep

SpecKept == Init /\ [][NextKept]_vars

(* calculate_new_dimensions over engines of several cell sizes *)
InitDims ==
    /\ \E in \in DimsInputs :
            /\ palette_file = in[1]
            /\ blocks_file = in[2]
    /\ pc = "load_palette"
    /\ palette = None
    /\ blocks = None
    /\ ansifier = None
    /\ ret = None
    /\ kept = None
    /\ par = None
    /\ filter = None
    /\ called = None
    /\ webcam = None

NextDims ==
    \/ Palette_from
    \/ Blocks_from
    \/ new
    \/ new_dimensions(DimsRequests)
    \/ consume

SpecDims == InitDims /\ [][NextDims]_vars

(* par_generate_lut_and_map under every order of its workers *)
InitPar ==
    /\ \E in \in ParInputs :
            /\ palette_file = in[1]
            /\ blocks_file = in[2]
    /\ pc = "load_palette"
    /\ palette = None
    /\ blocks = None
    /\ ansifier = None
    /\ ret = None
    /\ kept = None
    /\ par = None
    /\ filter = None
    /\ called = None
    /\ webcam = None

NextPar ==
    \/ Palette_from
    \/ Blocks_from
    \/ new
    \/ par_generate_lut_and_map
    \/ par_lut_worker
    \/ par_lut_join
    \/ par_row0_worker
    \/ par_row0_join
    \/ par_row1_worker
    \/ par_return
    \/ consume

SpecPar == InitPar /\ [][NextPar]_vars

----------------------------------------------------------------------------
(* The OBS filter, src/ansify-obs/src/lib.rs *)

(* What the paths a user can pick hold *)
ObsFile(path) ==
    CASE path = "a.yaml" -> File(<<ColorK, ColorA>>)
      [] path = "b.yaml" -> File(<<ColorA>>)
      [] path = "g.yaml" -> File(BlocksOf(2, 1, (1 :> "first") @@ (2 :> "full")))
      [] OTHER -> Missing

ObsPalettePaths == {None, Some("a.yaml"), Some("b.yaml")}
ObsBlocksPaths == {Some("g.yaml"), Some("missing.yaml")}

(* The settings object of a create or update call *)
ObsSettings ==
    [width : {None, Some(100)},
     palette_path : ObsPalettePaths,
     blocks_path : ObsBlocksPaths]

(* The base size of the filtered source *)
ObsSourceSizes == {<<800, 600>>}

(* Palette::from and Blocks::from on a path *)
ObsPaletteFrom(path) ==
    IF ObsFile(path) = Missing THEN Err
    ELSE Ok([colors |-> ObsFile(path).val])

ObsBlocksFrom(path) ==
    IF ObsFile(path) = Missing THEN Err
    ELSE IF ~DimensionsOk(ObsFile(path).val) THEN Panic("assertion failed")
    ELSE Ok(ObsFile(path).val)

(* The tables of a new engine loaded into two textures, or the panic of
   generate_lut_and_map *)
ObsTextures(e) ==
    IF ~TablesAsserts(e) THEN Panic("assertion failed")
    ELSE IF NearestIsNone(e.kdtree) THEN Panic("unwrap on a None value")
    ELSE LET t == TablesResult(e)
         IN  Some([ansifier |-> e, lut_texture |-> t.lut, map_texture |-> t.map])

(* The expression create and update assign to ansifier_data: the values it
   can have for the two path settings, a panic among them *)
AnsifierData(palette_path_setting, blocks_path_setting) ==
    IF palette_path_setting = None \/ blocks_path_setting = None THEN {None}
    ELSE LET p == ObsPaletteFrom(palette_path_setting.val)
             b == ObsBlocksFrom(blocks_path_setting.val)
         IN  IF b.tag = "Panic" THEN {b}
             ELSE IF p.tag # "Ok" \/ b.tag # "Ok" THEN {None}
             ELSE {ObsTextures(ANSIfier(p.val, b.val, tie)) :
                      tie \in TieBreaks(NewTexels(p.val, b.val))}

(* AnsifierData for every pair of path settings *)
AnsifierDataOf ==
    [paths \in ObsPalettePaths \X ObsBlocksPaths |->
        AnsifierData(paths[1], paths[2])]

SamePaths(s, t) ==
    s.palette_path = t.palette_path /\ s.blocks_path = t.blocks_path

(* ANSIfyFilter::create *)
create ==
    /\ pc = "obs_create"
    /\ \E settings \in ObsSettings :
        \E data \in AnsifierDataOf[settings.palette_path, settings.blocks_path] :
            IF data.tag = "Panic"
            THEN /\ ret' = data
                 /\ pc' = "panicked"
                 /\ UNCHANGED <<filter, called>>
            ELSE /\ filter' = Some(
                        [ansifier_data |-> data,
                         width |-> IF settings.width = None THEN 80
                                   ELSE settings.width.val,
                         palette_path_setting |-> settings.palette_path,
                         blocks_path_setting |-> settings.blocks_path])
                 /\ called' = Some([kind |-> "create", settings |-> settings,
                                    same_paths |-> FALSE, assigned |-> TRUE])
                 /\ pc' = "obs_live"
                 /\ ret' = ret
    /\ UNCHANGED <<palette_file, blocks_file, palette, blocks, ansifier, kept, par,
                   webcam>>

(* ANSIfyFilter::update *)
update ==
    /\ pc = "obs_live"
    /\ \E settings \in ObsSettings :
        LET self == filter.val
            width == IF settings.width # None THEN settings.width.val
                     ELSE self.width
            same_paths == /\ called.val.kind = "update"
                          /\ SamePaths(called.val.settings, settings)
        IN  IF \/ self.palette_path_setting # settings.palette_path
               \/ self.blocks_path_setting # settings.blocks_path
            THEN \E data \in AnsifierDataOf[settings.palette_path,
                                             settings.blocks_path] :
                    IF data.tag = "Panic"
                    THEN /\ ret' = data
                         /\ pc' = "panicked"
                         /\ filter' = Some([self EXCEPT !.width = width])
                         /\ called' = called
                    ELSE /\ filter' = Some([self EXCEPT !.width = width,
                                                       !.ansifier_data = data])
                         /\ called' = Some([kind |-> "update",
                                            settings |-> settings,
                                            same_paths |-> same_paths,
                                            assigned |-> TRUE])
                         /\ UNCHANGED <<pc, ret>>
            ELSE /\ filter' = Some([self EXCEPT !.width = width])
                 /\ called' = Some([kind |-> "update", settings |-> settings,
                                    same_paths |-> same_paths,
                                    assigned |-> FALSE])
                 /\ UNCHANGED <<pc, ret>>
    /\ UNCHANGED <<palette_file, blocks_file, palette, blocks, ansifier, kept, par,
                   webcam>>

(* ANSIfyFilter::video_render: nothing without ansifier_data; otherwise the
   effect parameters it sets for the draw *)
video_render ==
    /\ pc = "obs_live"
    /\ \E size \in ObsSourceSizes :
        LET self == filter.val
        IN  IF self.ansifier_data = None
            THEN ret' = [tag |-> "NoRender"]
            ELSE LET ansifier_data == self.ansifier_data.val
                     dimensions ==
                        calculate_new_dimensions(ansifier_data.ansifier, size,
                                                 <<Some(self.width), None>>)
                 IN  ret' = [tag |-> "Render",
                             lut |-> ansifier_data.lut_texture,
                             map |-> ansifier_data.map_texture,
                             character_dimensions |->
                                <<ansifier_data.ansifier.blocks.width,
                                  ansifier_data.ansifier.blocks.height>>,
                             image_dimensions |-> size,
                             characters |-> dimensions]
    /\ UNCHANGED <<palette_file, blocks_file, pc, palette, blocks, ansifier, kept,
                   par, filter, called, webcam>>

InitObs ==
    /\ palette_file = Missing
    /\ blocks_file = Missing
    /\ pc = "obs_create"
    /\ palette = None
    /\ blocks = None
    /\ ansifier = None
    /\ ret = None
    /\ kept = None
    /\ par = None
    /\ filter = None
    /\ called = None
    /\ webcam = None

NextObs == create \/ update \/ video_render

SpecObs == InitObs /\ [][NextObs]_vars

----------------------------------------------------------------------------
(* The webcam loop of the CLI, src/src/ansify-cli/main.rs *)

(* What the camera can see; a frame is its capture number and what
   process made of the picture *)
WebcamImages == {"dark", "light"}

(* The output argument: with a GIF file or without *)
WebcamOutputs == {None, Some("out.gif")}

(* The locals of the loop before its first iteration *)
WebcamLocals(encoder) ==
    [encoder |-> encoder, last_frame |-> None, captured |-> 0,
     out |-> None, window |-> <<>>, gif |-> <<>>]

(* let mut encoder = ...; let mut last_frame = (None, Instant::now()).
   File::create and set_repeat can fail, and main returns the error *)
webcam_start ==
    /\ pc = "webcam_start"
    /\ \E output \in WebcamOutputs :
        \/ /\ webcam' = Some(WebcamLocals(output # None))
           /\ pc' = "webcam_frame"
           /\ ret' = ret
        \/ /\ output # None
           /\ webcam' = Some(WebcamLocals(FALSE))
           /\ pc' = "webcam_done"
           /\ ret' = Err
    /\ UNCHANGED <<palette_file, blocks_file, palette, blocks, ansifier, kept, par,
                   filter, called>>

(* camera.frame()?, resize_exact and process: the next frame, or the
   capture error that main returns *)
webcam_frame ==
    /\ pc = "webcam_frame"
    /\ \/ /\ webcam.val.captured < MaxFrames
          /\ \E image \in WebcamImages :
                webcam' = Some([webcam.val EXCEPT
                    !.captured = @ + 1,
                    !.out = Some([n |-> webcam.val.captured + 1,
                                  image |-> image])])
          /\ pc' = "webcam_encode"
          /\ ret' = ret
       \/ /\ webcam' = webcam
          /\ pc' = "webcam_done"
          /\ ret' = Err
    /\ UNCHANGED <<palette_file, blocks_file, palette, blocks, ansifier, kept, par,
                   filter, called>>

(* if let Some(ref mut enc) = encoder: the frame of the iteration before
   is encoded, if there was one, and this one is stored in last_frame;
   encode_frame can fail, and main returns the error *)
webcam_encode ==
    /\ pc = "webcam_encode"
    /\ LET w == webcam.val
       IN  IF ~w.encoder
           THEN /\ webcam' = webcam
                /\ pc' = "webcam_show"
                /\ ret' = ret
           ELSE \/ /\ webcam' = Some([w EXCEPT
                        !.gif = IF w.last_frame = None THEN @
                                ELSE Append(@, w.last_frame.val),
                        !.last_frame = w.out])
                   /\ pc' = "webcam_show"
                   /\ ret' = ret
                \/ /\ w.last_frame # None
                   /\ webcam' = webcam
                   /\ pc' = "webcam_done"
                   /\ ret' = Err
    /\ UNCHANGED <<palette_file, blocks_file, palette, blocks, ansifier, kept, par,
                   filter, called>>

(* window.set_image("image", out): the window shows the frame, or it was
   closed and the loop breaks; main returns Ok(()) *)
webcam_show ==
    /\ pc = "webcam_show"
    /\ \/ /\ webcam' = Some([webcam.val EXCEPT
                !.window = Append(@, webcam.val.out.val),
                !.out = None])
          /\ pc' = "webcam_frame"
          /\ ret' = ret
       \/ /\ webcam' = Some([webcam.val EXCEPT !.out = None])
          /\ pc' = "webcam_done"
          /\ ret' = Ok(<<>>)
    /\ UNCHANGED <<palette_file, blocks_file, palette, blocks, ansifier, kept, par,
                   filter, called>>

InitWebcam ==
    /\ palette_file = Missing
    /\ blocks_file = Missing
    /\ pc = "webcam_start"
    /\ palette = None
    /\ blocks = None
    /\ ansifier = None
    /\ ret = None
    /\ kept = None
    /\ par = None
    /\ filter = None
    /\ called = None
    /\ webcam = None

NextWebcam == webcam_start \/ webcam_frame \/ webcam_encode \/ webcam_show

SpecWebcam == InitWebcam /\ [][NextWebcam]_vars

----------------------------------------------------------------------------
(* Properties of ANSIfier::new.  They are stated in the state in which new
   has returned and no call on the engine is outstanding, pc = "ready"; the
   engine does not change afterwards. *)

(* The number of true cells of the bitmap of glyph c *)
Coverage(e, c) ==
    Cardinality({xy \in (1..e.blocks.width) \X (1..e.blocks.height) :
                    e.blocks.blocks[c][xy[2]][xy[1]]})

CellArea(e) == e.blocks.width * e.blocks.height

(* 0 < r < 1 for glyph c *)
Partial(e, c) == 0 < Coverage(e, c) /\ Coverage(e, c) < CellArea(e)

(* The texels of glyph c, in the order they were pushed *)
TexelsOf(e, c) == SelectSeq(e.kdtree.items, LAMBDA t : t[2].block = c)

(* a * r + b * (1 - r) per channel for r = k / area, over the common
   denominator 255 * area; a and b are colours with channels 0..255 *)
BlendAt(a, b, k, area) ==
    [ch \in 1..3 |-> Rat(a[ch] * k + b[ch] * (area - k), ChannelMax * area)]

(* The pairs of 0-based palette positions that hold different colours *)
DifferingPairs(colors) ==
    {p \in (0..(Len(colors) - 1)) \X (0..(Len(colors) - 1)) :
        colors[p[1] + 1] # colors[p[2] + 1]}

(* The number of pairs of D that the nested loops visit before p *)
RankIn(D, p) ==
    Cardinality({q \in D : q[1] < p[1] \/ (q[1] = p[1] /\ q[2] < p[2])})

(* C1, as stated: for a palette of n >= 2 colours, every glyph with
   0 < r < 1 has exactly n * (n - 1) texels, one for each ordered pair of
   distinct colour ids and none with equal ids. *)
C1_OnePerPairOfDistinctIds ==
    pc = "ready" =>
        LET e == ansifier.val
            n == Len(e.palette.colors)
        IN  n >= 2 =>
                \A c \in DOMAIN e.blocks.blocks :
                    Partial(e, c) =>
                        LET ts == TexelsOf(e, c)
                        IN  /\ Len(ts) = n * (n - 1)
                            /\ {<<ts[k][2].foreground_color,
                                  ts[k][2].background_color>> :
                                    k \in 1..Len(ts)}
                               = {p \in (0..(n - 1)) \X (0..(n - 1)) :
                                    p[1] # p[2]}

(* C1, amended: for a palette of n >= 2 colours, every glyph with
   0 < r < 1 has exactly one texel for each ordered pair (i, j) of palette
   positions that hold different colours, blended from those two colours,
   in the order of the pairs, and none for a pair of positions that hold
   the same colour; these are n * (n - 1) texels when the colours of the
   palette are pairwise distinct. *)
C1_OnePerPairOfDifferingColors ==
    pc = "ready" =>
        LET e == ansifier.val
            colors == e.palette.colors
            n == Len(colors)
            D == DifferingPairs(colors)
        IN  n >= 2 =>
                \A c \in DOMAIN e.blocks.blocks :
                    Partial(e, c) =>
                        LET ts == TexelsOf(e, c)
                        IN  /\ Len(ts) = Cardinality(D)
                            /\ \A p \in D :
                                 ts[RankIn(D, p) + 1][1]
                                 = BlendAt(colors[p[1] + 1], colors[p[2] + 1],
                                           Coverage(e, c), CellArea(e))
                            /\ (\A i, j \in 1..n : i # j => colors[i] # colors[j])
                                 => Len(ts) = n * (n - 1)

(* An engine built from the palette that repeats a colour and a glyph of
   partial coverage: four of the six pairs of positions differ in colour *)
C1_Witness ==
    /\ pc = "ready"
    /\ ansifier.val.palette.colors = RepeatPalette
    /\ \E c \in DOMAIN ansifier.val.blocks.blocks :
            /\ Partial(ansifier.val, c)
            /\ Len(TexelsOf(ansifier.val, c)) = 4

(* The colour v with each channel divided by 255 *)
Normalized(v) == [ch \in 1..3 |-> Rat(v[ch], 255)]

(* The texels of a glyph of coverage 0 or 1 are, in palette order, the
   normalized palette colours, the i-th with id i on the side the glyph
   shows and the sentinel 0 on the other *)
DegenerateTexelsOk(e, c) ==
    LET colors == e.palette.colors
        ts == TexelsOf(e, c)
    IN  /\ Coverage(e, c) = 0 =>
            /\ Len(ts) = Len(colors)
            /\ \A k \in 1..Len(ts) :
                    /\ ts[k][1] = Normalized(colors[k])
                    /\ ts[k][2].background_color = k - 1
                    /\ ts[k][2].foreground_color = 0
        /\ Coverage(e, c) = CellArea(e) =>
            /\ Len(ts) = Len(colors)
            /\ \A k \in 1..Len(ts) :
                    /\ ts[k][1] = Normalized(colors[k])
                    /\ ts[k][2].foreground_color = k - 1
                    /\ ts[k][2].background_color = 0

(* C2, as stated: a glyph of coverage 0 has exactly palette.len() texels,
   the i-th with background id i, foreground id 0 and the normalized palette
   colour i as its colour; a glyph of coverage 1 has exactly palette.len()
   texels, the i-th with foreground id i, background id 0 and palette
   colour i. *)
C2_DegenerateGlyphTexels ==
    pc = "ready" =>
        \A c \in DOMAIN ansifier.val.blocks.blocks :
            DegenerateTexelsOk(ansifier.val, c)

(* C2 for the palettes whose positions all fit a u8: up to 256 colours *)
C2_UpTo256Colors ==
    (pc = "ready" /\ Len(ansifier.val.palette.colors) <= U8Range) =>
        \A c \in DOMAIN ansifier.val.blocks.blocks :
            DegenerateTexelsOk(ansifier.val, c)

(* An engine with an empty and a full glyph and three colours *)
C2_Witness ==
    /\ pc = "ready"
    /\ Len(ansifier.val.palette.colors) = 3
    /\ \E c, d \in DOMAIN ansifier.val.blocks.blocks :
            /\ Coverage(ansifier.val, c) = 0
            /\ Coverage(ansifier.val, d) = CellArea(ansifier.val)
            /\ Len(TexelsOf(ansifier.val, c)) = 3
            /\ Len(TexelsOf(ansifier.val, d)) = 3

(* The colour of every texel of a glyph with 0 < r < 1 is the blend, with
   r = (true cells) / (cell_width * cell_height) on the foreground, of the
   palette colours at the texel's two ids *)
BlendOfIdsOk(e) ==
    \A k \in 1..Len(e.kdtree.items) :
        LET point == e.kdtree.items[k][1]
            texel == e.kdtree.items[k][2]
        IN  Partial(e, texel.block) =>
                point = BlendAt(e.palette.colors[texel.foreground_color + 1],
                                e.palette.colors[texel.background_color + 1],
                                Coverage(e, texel.block), CellArea(e))

(* C3, as stated: every texel of a glyph with 0 < r < 1 has the colour
   fg * r + bg * (1 - r) per channel, r the share of true cells of the
   bitmap, fg and bg the normalized palette colours at the texel's
   foreground and background ids. *)
C3_BlendOfColorsAtIds == pc = "ready" => BlendOfIdsOk(ansifier.val)

(* C3 for the palettes whose positions all fit a u8: up to 256 colours *)
C3_UpTo256Colors ==
    (pc = "ready" /\ Len(ansifier.val.palette.colors) <= U8Range) =>
        BlendOfIdsOk(ansifier.val)

(* An engine with glyphs of coverage 1/8 and 1/32 and their blends *)
C3_Witness ==
    /\ pc = "ready"
    /\ CellArea(ansifier.val) = 32
    /\ \E k \in 1..Len(ansifier.val.kdtree.items) :
            /\ Coverage(ansifier.val, ansifier.val.kdtree.items[k][2].block) = 1
            /\ ansifier.val.kdtree.items[k][2].foreground_color = 1
            /\ ansifier.val.kdtree.items[k][1] = <<<<5, 204>>, <<5, 408>>, <<1, 204>>>>

----------------------------------------------------------------------------
(* Properties of the queries of process and generate_lut_and_map *)

(* The item sel is an item of the tree of e and a nearest one to q: no item
   of the tree is strictly closer in squared Euclidean distance *)
IsNearest(e, sel, q) ==
    LET d == SqDist(sel[1], q)
    IN  /\ \E m \in 1..Len(e.kdtree.items) : e.kdtree.items[m] = sel
        /\ \A o \in 1..Len(e.kdtree.items) :
                ~RLess(SqDist(e.kdtree.items[o][1], q), d)

(* The painted glyphs of a text, without the line breaks *)
Glyphs(text) == SelectSeq(text, LAMBDA t : t.kind = "glyph")

(* C4: for every source pixel the texel process selects, and prints, is an
   item of the engine's tree such that no item of the tree is strictly
   closer, in squared Euclidean distance, to the pixel's colour divided by
   255; the same holds of the texel behind every LUT pixel and the colour of
   its address. *)
C4_ExactNearestNeighbour ==
    /\ ret.tag = "Process" =>
        LET at(k) == <<(k - 1) % ret.img.width, (k - 1) \div ret.img.width>>
            glyphs == Glyphs(ret.text)
        IN  /\ Len(ret.nearest) = ret.img.width * ret.img.height
            /\ Len(glyphs) = ret.img.width * ret.img.height
            /\ \A k \in 1..Len(ret.nearest) :
                    /\ glyphs[k].fg = ret.nearest[k][2].foreground_color
                    /\ glyphs[k].bg = ret.nearest[k][2].background_color
                    /\ glyphs[k].ch = ret.nearest[k][2].block
            /\ \A v \in {ret.img.px[xy] : xy \in DOMAIN ret.img.px} :
                    \A sel \in {ret.nearest[k] :
                                 k \in {j \in 1..Len(ret.nearest) :
                                            ret.img.px[at(j)] = v}} :
                        IsNearest(ansifier.val, sel, Normalized(v))
    /\ ret.tag = "Tables" =>
        \A a \in DOMAIN ret.nearest :
            IsNearest(ansifier.val, ret.nearest[a],
                      Normalized(<<a[1] % 256, a[2] % 256,
                                   ((a[1] \div 256) % 16)
                                   + 16 * ((a[2] \div 256) % 16)>>))

(* process has quantized an image with a pixel of ColorA and a pixel that is
   no texel's colour, against a tree of at least three texels, and has
   selected the texel of ColorA for the first *)
C4_Witness ==
    /\ ret.tag = "Process"
    /\ Len(ansifier.val.kdtree.items) >= 3
    /\ \E k, l \in 1..Len(ret.nearest) :
            /\ ret.img.px[<<(k - 1) % ret.img.width,
                            (k - 1) \div ret.img.width>>] = ColorA
            /\ ret.nearest[k][1] = Normalized(ColorA)
            /\ ret.nearest[l][1]
               # Normalized(ret.img.px[<<(l - 1) % ret.img.width,
                                         (l - 1) \div ret.img.width>>])

(* C5, as stated: for a non-empty palette and a non-empty glyph set the
   texel set built by ANSIfier::new is non-empty, and no query of process
   or generate_lut_and_map fails with `not found`. *)
C5_TexelSetNonEmpty ==
    (/\ ansifier.tag = "Some"
     /\ Len(ansifier.val.palette.colors) > 0
     /\ DOMAIN ansifier.val.blocks.blocks # {}) =>
        /\ Len(ansifier.val.kdtree.items) > 0
        /\ ret # Panic("unwrap on a None value")

(* C6, as stated: construction from a palette without colours, a glyph set
   without glyphs, or inputs whose texel set is empty returns an error: no
   engine exists afterwards, and nothing aborts, at construction or at a
   later query. *)
C6_EmptyInputIsAnError ==
    (/\ palette.tag = "Ok"
     /\ blocks.tag = "Ok"
     /\ pc # "new"
     /\ \/ Len(palette.val.colors) = 0
        \/ DOMAIN blocks.val.blocks = {}
        \/ \A c \in DOMAIN blocks.val.blocks :
               /\ 0 < count_foreground_pixels(blocks.val.blocks[c])
               /\ count_foreground_pixels(blocks.val.blocks[c])
                    < blocks.val.width * blocks.val.height
               /\ \A i, j \in 1..Len(palette.val.colors) :
                       palette.val.colors[i] = palette.val.colors[j]) =>
        /\ ansifier.tag # "Some"
        /\ pc # "panicked"

(* C7, as stated: loading a glyph set with a bitmap whose row count is not
   the declared height, or with a row whose length is not the declared
   width, yields an Err and never a panic, and no engine is built from it. *)
C7_BadDimensionsIsAnErr ==
    (/\ blocks_file.tag = "File"
     /\ \E c \in DOMAIN blocks_file.val.blocks :
            \/ Len(blocks_file.val.blocks[c]) # blocks_file.val.height
            \/ \E y \in 1..Len(blocks_file.val.blocks[c]) :
                   Len(blocks_file.val.blocks[c][y]) # blocks_file.val.width
     /\ pc \notin {"load_palette", "load_blocks"}) =>
        /\ blocks \in {None, Err}
        /\ pc = "exit_err"
        /\ ansifier = None

----------------------------------------------------------------------------
(* Properties of generate_lut_and_map *)

(* The engine exceeds a limit of the tables *)
OverCapacity(e) ==
    \/ CellArea(e) > 32
    \/ Len(e.palette.colors) > 256
    \/ Cardinality(DOMAIN e.blocks.blocks) > 256

(* C8, as stated: for an engine with a cell area above 32, more than 256
   colours or more than 256 glyphs, generate_lut_and_map returns an error
   value and does not abort; for a cell area of exactly 32 it succeeds, and
   every bit position x + y * cell_width it packs is at most 31. *)
C8_CapacityErrorNotAbort ==
    ansifier.tag = "Some" =>
        LET e == ansifier.val
        IN  /\ OverCapacity(e) => ret # Panic("assertion failed")
            /\ ~OverCapacity(e) => ret # Panic("assertion failed")
            /\ (ret.tag = "Tables" /\ CellArea(e) = 32) =>
                    \A x \in 0..(e.blocks.width - 1),
                       y \in 0..(e.blocks.height - 1) :
                            x + y * e.blocks.width <= 31

(* C9, as stated: for a glyph set of 1 to 256 glyphs generate_lut_and_map
   gives the glyphs the indices 0..count-1, pairwise distinct, in ascending
   order of the characters, and its 8-bit counter never overflows, also
   with exactly 256 glyphs. *)
C9_GlyphIndicesWithoutOverflow ==
    (/\ ansifier.tag = "Some"
     /\ Cardinality(DOMAIN ansifier.val.blocks.blocks) \in 1..256) =>
        /\ ret # Panic("attempt to add with overflow")
        /\ ret.tag = "Tables" =>
            LET chars == DOMAIN ansifier.val.blocks.blocks
            IN  /\ DOMAIN ret.char_to_idx = chars
                /\ \A c \in chars :
                     ret.char_to_idx[c] = Cardinality({d \in chars : d < c})
                /\ Len(ret.idx_to_char) = Cardinality(chars)
                /\ \A c \in chars : ret.idx_to_char[ret.char_to_idx[c] + 1] = c
                /\ Cardinality(chars) <= 255

(* C9 for the glyph sets the counter can count: up to 255 glyphs *)
C9_UpTo255Glyphs ==
    (/\ ansifier.tag = "Some"
     /\ Cardinality(DOMAIN ansifier.val.blocks.blocks) \in 1..255) =>
        /\ ret # Panic("attempt to add with overflow")
        /\ ret.tag = "Tables" =>
            LET chars == DOMAIN ansifier.val.blocks.blocks
            IN  /\ DOMAIN ret.char_to_idx = chars
                /\ \A c \in chars :
                     ret.char_to_idx[c] = Cardinality({d \in chars : d < c})
                /\ Len(ret.idx_to_char) = Cardinality(chars)
                /\ \A c \in chars : ret.idx_to_char[ret.char_to_idx[c] + 1] = c

(* C10: the LUT is 4096 x 4096, and its pixel at every address (x, y) is
   (fg id, bg id, glyph index, 255) of a texel of the tree that is nearest
   to the colour r = x mod 256, g = y mod 256,
   b = (x div 256) mod 16 + 16 * ((y div 256) mod 16), each divided by 255;
   the glyph index is the rank of the texel's character among the
   characters of the glyph set. *)
C10_LutPixelOfNearestTexel ==
    ret.tag = "Tables" =>
        /\ ret.lut.width = 4096
        /\ ret.lut.height = 4096
        /\ \A a \in DOMAIN ret.lut.px :
            LET e == ansifier.val
                chars == DOMAIN e.blocks.blocks
                q == Normalized(<<a[1] % 256, a[2] % 256,
                                  ((a[1] \div 256) % 16)
                                  + 16 * ((a[2] \div 256) % 16)>>)
            IN  \E m \in 1..Len(e.kdtree.items) :
                    LET texel == e.kdtree.items[m][2]
                    IN  /\ ret.lut.px[a]
                           = <<texel.foreground_color, texel.background_color,
                               Cardinality({d \in chars : d < texel.block}),
                               255>>
                        /\ IsNearest(e, e.kdtree.items[m], q)

(* The tables of an engine with the colours K and M and a full glyph: the
   address (60, 512) stands for the colour (60, 0, 32), whose nearest texel
   is the one of M, palette position 1 *)
C10_Witness ==
    /\ ret.tag = "Tables"
    /\ ansifier.val.palette.colors = <<ColorK, ColorM>>
    /\ ret.lut.px[<<60, 512>>][1] = 1
    /\ ret.lut.px[<<60, 512>>][4] = 255

(* C11: the map is 256 x 2; its row 0 holds at every column i below
   palette.len() the palette colour i as (R, G, B, 255), and every other
   column of row 0 is (0, 0, 0, 0), the value RgbaImage::new starts with. *)
C11_MapRow0IsThePalette ==
    ret.tag = "Tables" =>
        LET colors == ansifier.val.palette.colors
        IN  /\ ret.map.width = 256
            /\ ret.map.height = 2
            /\ DOMAIN ret.map.px = (0..255) \X (0..1)
            /\ \A i \in 0..255 :
                    ret.map.px[<<i, 0>>]
                    = IF i < Len(colors)
                      THEN <<colors[i + 1][1], colors[i + 1][2],
                             colors[i + 1][3], 255>>
                      ELSE <<0, 0, 0, 0>>

(* The tables of an engine with three colours, the black one among them:
   columns 0..2 of row 0 are written, column 3 is not *)
C11_Witness ==
    /\ ret.tag = "Tables"
    /\ Len(ansifier.val.palette.colors) = 3
    /\ \E i \in 0..2 : ret.map.px[<<i, 0>>] = <<0, 0, 0, 255>>
    /\ \E i \in 0..2 : ret.map.px[<<i, 0>>] = <<200, 100, 40, 255>>
    /\ ret.map.px[<<3, 0>>] = <<0, 0, 0, 0>>

(* Bit n, 0..31, of the 32-bit value whose bytes, least significant first,
   are the four channels of px *)
ChannelBit(px, n) == (px[(n \div 8) + 1] \div Pow2(n % 8)) % 2

(* The character of rank j, counted from 0, among the characters chars *)
CharOfRank(chars, j) ==
    CHOOSE c \in chars : Cardinality({d \in chars : d < c}) = j

(* C12: row 1, column j of the map holds, as R = bits 0-7, G = bits 8-15,
   B = bits 16-23, A = bits 24-31, the 32-bit value whose bit i + k * width
   is set if and only if the cell pixel in column i, row k of the glyph with
   index j is foreground; different cell pixels have different bits, and no
   other bit is set, so the four channels give back the bitmap. *)
C12_MapRow1IsTheBitmap ==
    ret.tag = "Tables" =>
        LET e == ansifier.val
            chars == DOMAIN e.blocks.blocks
            cell == (0..(e.blocks.width - 1)) \X (0..(e.blocks.height - 1))
        IN  \A j \in 0..(Cardinality(chars) - 1) :
                LET bitmap == e.blocks.blocks[CharOfRank(chars, j)]
                    px == ret.map.px[<<j, 1>>]
                IN  /\ \A ik \in cell :
                           /\ ik[1] + ik[2] * e.blocks.width \in 0..31
                           /\ ChannelBit(px, ik[1] + ik[2] * e.blocks.width) = 1
                                <=> bitmap[ik[2] + 1][ik[1] + 1]
                    /\ \A ik, jl \in cell :
                           ik # jl => ik[1] + ik[2] * e.blocks.width
                                      # jl[1] + jl[2] * e.blocks.width
                    /\ \A n \in 0..31 :
                           ChannelBit(px, n) = 1 =>
                               \E ik \in cell : ik[1] + ik[2] * e.blocks.width = n

(* The tables of the engine with the 8 x 4 cell: the glyph with index 1 has
   only its last cell pixel set, bit 31, the top bit of the alpha channel *)
C12_Witness ==
    /\ ret.tag = "Tables"
    /\ ansifier.val.blocks.width = 8
    /\ ansifier.val.blocks.height = 4
    /\ ret.map.px[<<1, 1>>] = <<0, 0, 0, 128>>
    /\ ret.map.px[<<0, 1>>] = <<1, 1, 1, 1>>

(* C13: a call of generate_lut_and_map on an engine that has returned its
   tables before, with any number of process calls in between, returns the
   LUT and the map of the first call, pixel for pixel. *)
C13_TablesIdempotent ==
    (ret.tag = "Tables" /\ kept.tag = "Some") =>
        /\ ret.lut = kept.val.lut
        /\ ret.map = kept.val.map

(* A later call has returned the tables of an engine with ties among its
   texels: the blends of (K, A) and (A, K) at r = 1/2 are the same colour *)
C13_Witness ==
    /\ ret.tag = "Tables"
    /\ kept.tag = "Some"
    /\ \E k, l \in 1..Len(ansifier.val.kdtree.items) :
            /\ k # l
            /\ ansifier.val.kdtree.items[k][1] = ansifier.val.kdtree.items[l][1]
            /\ ret.nearest[<<1124, 306>>] = ansifier.val.kdtree.items[l]

----------------------------------------------------------------------------
(* Properties of calculate_new_dimensions, stated of what a call returned *)

(* C14: with neither width nor height requested the call returns the
   original dimensions unchanged, and with both requested it returns exactly
   the requested (w, h), whatever the original size and the cell size *)
C14_NeitherOrBothRequested ==
    ret.tag = "Dimensions" =>
        /\ ret.desired = <<None, None>> =>
                ret.value = <<U32(ret.original[1]), U32(ret.original[2])>>
        /\ (ret.desired[1] # None /\ ret.desired[2] # None) =>
                ret.value = <<U32(ret.desired[1].val), U32(ret.desired[2].val)>>

(* Both requested, on an original of height 0, whose ratio is infinite *)
C14_Witness ==
    /\ ret.tag = "Dimensions"
    /\ ret.original = <<800, 0>>
    /\ ret.desired = <<Some(9), Some(80)>>
    /\ ret.value = <<U32(9), U32(80)>>
    /\ ansifier.val.blocks.width = 2
    /\ ansifier.val.blocks.height = 4

(* The cell size of the engine, the original size and the request of a call:
   what the aspect ratio and the quotients of C15 are made of *)
CellOf(e) == <<e.blocks.width, e.blocks.height>>
OnlyWidth(r) == r.desired[1] # None /\ r.desired[2] = None
OnlyHeight(r) == r.desired[1] = None /\ r.desired[2] # None
HasAspect(r) == r.original[1] > 0 /\ r.original[2] > 0

(* w / aspect = n / d with n = w * cell.width * original.height and
   d = original.width * cell.height, as <<n, d>> *)
WidthOverAspect(r, cell) ==
    <<r.desired[1].val * cell[1] * r.original[2], r.original[1] * cell[2]>>

(* h * aspect = n / d with n = h * original.width * cell.height and
   d = cell.width * original.height *)
HeightTimesAspect(r, cell) ==
    <<r.desired[2].val * r.original[1] * cell[2], cell[1] * r.original[2]>>

IsExample(r, cell) ==
    /\ r.original = <<800, 600>>
    /\ r.desired = <<Some(80), None>>
    /\ cell = <<2, 4>>

(* u is the truncation of n / d *)
IsTrunc(u, nd) == u = U32(nd[1] \div nd[2])

(* u is the truncation of n / d, or the integer next to it where n / d lies
   within the rounding error of four single-precision operations (a relative
   2^-21 at most) of an integer *)
IsTruncInF32(u, nd) ==
    LET q == nd[1] \div nd[2]
        r == nd[1] % nd[2]
        slack == nd[1] \div 2097152
    IN  \/ u = U32(q)
        \/ r <= slack /\ q > 0 /\ u = U32(q - 1)
        \/ nd[2] - r <= slack /\ u = U32(q + 1)

(* C15 as stated: the other dimension is the truncation of w / aspect, or of
   h * aspect, and in the example the aspect ratio is 1.6..., which puts the
   height trunc(80 / aspect) between 80 / 1.7 and 80 / 1.6 *)
C15_TruncOfExactQuotient ==
    (ret.tag = "Dimensions" /\ HasAspect(ret)) =>
        LET cell == CellOf(ansifier.val)
        IN  /\ OnlyWidth(ret) =>
                    /\ ret.value[1] = U32(ret.desired[1].val)
                    /\ IsTrunc(ret.value[2], WidthOverAspect(ret, cell))
            /\ OnlyHeight(ret) =>
                    /\ IsTrunc(ret.value[1], HeightTimesAspect(ret, cell))
                    /\ ret.value[2] = U32(ret.desired[2].val)
            /\ IsExample(ret, cell) =>
                    ret.value[2] \in {U32(h) : h \in 47..50}

(* C15, amended: the quotient is computed in single precision, so the other
   dimension is the truncation of w / aspect, or of h * aspect, up to the
   rounding error of that computation; in the example the aspect ratio is
   2.66... and the result is (80, 30) *)
C15_TruncOfSinglePrecisionQuotient ==
    (ret.tag = "Dimensions" /\ HasAspect(ret)) =>
        LET cell == CellOf(ansifier.val)
        IN  /\ OnlyWidth(ret) =>
                    /\ ret.value[1] = U32(ret.desired[1].val)
                    /\ IsTruncInF32(ret.value[2], WidthOverAspect(ret, cell))
            /\ OnlyHeight(ret) =>
                    /\ IsTruncInF32(ret.value[1], HeightTimesAspect(ret, cell))
                    /\ ret.value[2] = U32(ret.desired[2].val)
            /\ IsExample(ret, cell) => ret.value = <<U32(80), U32(30)>>

(* 9 / ((1/1) / (5/3)) is 15 exactly; in single precision the ratio is
   0.60000002... and the quotient comes out just below 15 *)
C15_Witness ==
    /\ ret.tag = "Dimensions"
    /\ ret.original = <<1, 5>>
    /\ ret.desired = <<Some(9), None>>
    /\ CellOf(ansifier.val) = <<1, 3>>
    /\ ret.value = <<U32(9), U32(14)>>

----------------------------------------------------------------------------
(* Properties of process, stated of what a call returned *)

(* The texel process selected for the k-th source pixel, in row-major order *)
SelectedTexel(r, k) == r.nearest[k][2]

(* The number of the source pixel (x, y), from 1 *)
PixelNumber(img, x, y) == y * img.width + x + 1

(* The source pixels whose put_pixel calls write the output pixel at *)
WritersOf(e, r, at) ==
    {k \in 1..(r.img.width * r.img.height) :
        LET xy == EnumeratePixels(r.img)[k]
            ws == PixelWrites(e, xy[1], xy[2], SelectedTexel(r, k))
        IN  \E n \in 1..Len(ws) : ws[n].at = at}

(* C16: the raster of a W x H image is (W * cell_width) x (H * cell_height);
   the output pixel (x * cell_width + i, y * cell_height + j) is the palette
   colour at the foreground id of the texel selected for source pixel (x, y)
   where the bitmap of its glyph is set at [j][i] and the colour at its
   background id elsewhere; each output pixel is written by exactly one
   source pixel *)
C16_RasterOfSelectedTexels ==
    ret.tag = "Process" =>
        LET e == ansifier.val
            cw == e.blocks.width
            ch == e.blocks.height
        IN  /\ ret.out.width = ret.img.width * cw
            /\ ret.out.height = ret.img.height * ch
            /\ DOMAIN ret.out.px =
                    (0..(ret.img.width * cw - 1)) \X (0..(ret.img.height * ch - 1))
            /\ \A x \in 0..(ret.img.width - 1), y \in 0..(ret.img.height - 1) :
                    LET t == SelectedTexel(ret, PixelNumber(ret.img, x, y))
                        bitmap == e.blocks.blocks[t.block]
                    IN  \A i \in 0..(cw - 1), j \in 0..(ch - 1) :
                            ret.out.px[<<x * cw + i, y * ch + j>>] =
                                IF bitmap[j + 1][i + 1]
                                THEN e.palette.colors[t.foreground_color + 1]
                                ELSE e.palette.colors[t.background_color + 1]
            /\ \A at \in DOMAIN ret.out.px :
                    Cardinality(WritersOf(e, ret, at)) = 1

(* A 2 x 2 image one of whose cells is painted in two different colours *)
C16_Witness ==
    /\ ret.tag = "Process"
    /\ ret.img.width = 2
    /\ ret.img.height = 2
    /\ ansifier.val.blocks.width >= 2
    /\ \E k \in 1..4 :
            LET e == ansifier.val
                t == SelectedTexel(ret, k)
                xy == EnumeratePixels(ret.img)[k]
            IN  /\ e.palette.colors[t.foreground_color + 1]
                        # e.palette.colors[t.background_color + 1]
                /\ ret.out.px[<<xy[1] * e.blocks.width, xy[2] * e.blocks.height>>]
                        # ret.out.px[<<xy[1] * e.blocks.width + 1,
                                      xy[2] * e.blocks.height>>]

(* The painted glyph of a texel, as the text holds it *)
PaintedGlyph(t) ==
    [kind |-> "glyph", fg |-> t.foreground_color, bg |-> t.background_color,
     ch |-> t.block]

LineBreaks(text) == {n \in 1..Len(text) : text[n].kind = "newline"}

(* The glyphs of the text are those of the selected texels in row-major
   order of the source pixels *)
GlyphsInRowMajorOrder(r) ==
    LET g == Glyphs(r.text)
    IN  /\ Len(g) = r.img.width * r.img.height
        /\ \A k \in 1..Len(g) : g[k] = PaintedGlyph(SelectedTexel(r, k))

(* A line break stands right after the glyph of the last column of each
   row and nowhere else: the n-th entry of the text is a line break exactly
   when the entry before it is the glyph of a source pixel with x = W - 1 *)
BreaksAfterLastColumn(r) ==
    \A n \in 1..Len(r.text) :
        (r.text[n].kind = "newline") <=>
            /\ n > 1
            /\ r.text[n - 1].kind = "glyph"
            /\ LET k == Cardinality({m \in 1..(n - 1) : r.text[m].kind = "glyph"})
               IN  EnumeratePixels(r.img)[k][1] = r.img.width - 1

(* C17 as stated: W * H painted glyphs in row-major order, each with the ids
   of its texel, and exactly H line breaks, one right after the glyph of the
   last column of each row *)
C17_HLineBreaks ==
    ret.tag = "Process" =>
        /\ GlyphsInRowMajorOrder(ret)
        /\ Cardinality(LineBreaks(ret.text)) = ret.img.height
        /\ BreaksAfterLastColumn(ret)

(* C17, amended: as stated for images of width 1 or more; an image of width
   0 has no pixel, and its text is empty whatever its height *)
C17_HLineBreaksUnlessEmptyRows ==
    ret.tag = "Process" =>
        /\ GlyphsInRowMajorOrder(ret)
        /\ Cardinality(LineBreaks(ret.text)) =
                IF ret.img.width = 0 THEN 0 ELSE ret.img.height
        /\ BreaksAfterLastColumn(ret)
        /\ ret.img.width = 0 => ret.text = <<>>

(* A 2 x 2 image: glyph, glyph, break, glyph, glyph, break *)
C17_Witness ==
    /\ ret.tag = "Process"
    /\ ret.img.width = 2
    /\ ret.img.height = 2
    /\ Len(ret.text) = 6
    /\ LineBreaks(ret.text) = {3, 6}

(* The glyph set has a glyph of full or of empty coverage *)
HasFullOrEmptyGlyph(e) ==
    \E c \in DOMAIN e.blocks.blocks : ~Partial(e, c)

(* Every pixel of the image is a colour of the palette *)
BuiltFromPalette(e, img) ==
    ImageColors(img) \subseteq {e.palette.colors[n] : n \in 1..Len(e.palette.colors)}

(* The sum of channel c over the output cell of source pixel (x, y) *)
CellSum(e, out, x, y, c) ==
    LET cw == e.blocks.width
        ch == e.blocks.height
    IN  SumSeq([k \in 1..(cw * ch) |->
                  out.px[<<x * cw + ((k - 1) % cw), y * ch + ((k - 1) \div cw)>>][c]])

(* The colour reconstructed from a cell, the mean of its pixels, is rgb *)
CellReconstructs(e, out, x, y, rgb) ==
    \A c \in 1..3 : CellSum(e, out, x, y, c) = CellArea(e) * rgb[c]

RoundTrips(e, r) ==
    \A xy \in DOMAIN r.img.px :
        CellReconstructs(e, r.out, xy[1], xy[2], r.img.px[xy])

(* C18: when the glyph set has a glyph of full or of empty coverage and every
   pixel of the image is a palette colour, the colour reconstructed from each
   output cell of process is the colour of the source pixel, for every
   palette and glyph set *)
C18_RoundTrip ==
    (/\ ret.tag = "Process"
     /\ HasFullOrEmptyGlyph(ansifier.val)
     /\ BuiltFromPalette(ansifier.val, ret.img)) => RoundTrips(ansifier.val, ret)

(* The same for palettes of up to 256 colours, whose ids are the positions *)
C18_UpTo256Colors ==
    (/\ ret.tag = "Process"
     /\ Len(ansifier.val.palette.colors) <= MaxPaletteColors
     /\ HasFullOrEmptyGlyph(ansifier.val)
     /\ BuiltFromPalette(ansifier.val, ret.img)) => RoundTrips(ansifier.val, ret)

----------------------------------------------------------------------------
(* par_generate_lut_and_map against generate_lut_and_map *)

(* C20: whatever the order in which the parallel workers ran, the LUT and
   the map that par_generate_lut_and_map returns are, pixel for pixel, those
   generate_lut_and_map returns for the same engine *)
C20_ParallelTablesEqualSequential ==
    ret.tag = "ParTables" =>
        LET seq == TablesResult(ansifier.val)
        IN  /\ ret.lut.width = seq.lut.width
            /\ ret.lut.height = seq.lut.height
            /\ \A a \in DOMAIN ret.lut.px : ret.lut.px[a] = seq.lut.px[a]
            /\ ret.map = seq.map

(* A parallel call has returned for an engine of three colours and two
   glyphs, whose loops have several workers each *)
C20_Witness ==
    /\ ret.tag = "ParTables"
    /\ Len(ansifier.val.palette.colors) = 3
    /\ Cardinality(DOMAIN ansifier.val.blocks.blocks) = 2
    /\ ret.lut.px[<<2248, 612>>] # <<0, 0, 0, 0>>
    /\ ret.map.px[<<2, 0>>] # <<0, 0, 0, 0>>
    /\ ret.map.px[<<1, 1>>] # <<0, 0, 0, 0>>

----------------------------------------------------------------------------
(* The stored ids of the texels *)

(* The colour of the texel at place k of the tree was computed from the
   palette colours at its stored ids: for a glyph of coverage 0 from the one
   at the background id, for a glyph of full coverage from the one at the
   foreground id, otherwise blended from the two *)
ColourFromStoredIds(e, k) ==
    LET point == e.kdtree.items[k][1]
        texel == e.kdtree.items[k][2]
        fg == e.palette.colors[texel.foreground_color + 1]
        bg == e.palette.colors[texel.background_color + 1]
        cov == Coverage(e, texel.block)
    IN  IF cov = 0 THEN point = Normalized(bg)
        ELSE IF cov = CellArea(e) THEN point = Normalized(fg)
        ELSE point = BlendAt(fg, bg, cov, CellArea(e))

(* The texel pushed for palette position i and a glyph of coverage 0 or 1
   stores i itself *)
StoredIdIsPosition(e, c) ==
    LET ts == TexelsOf(e, c)
    IN  \A k \in 1..Len(ts) :
            /\ Coverage(e, c) = 0 => ts[k][2].background_color = k - 1
            /\ Coverage(e, c) = CellArea(e) => ts[k][2].foreground_color = k - 1

IdsNameTheColours(e) ==
    /\ \A k \in 1..Len(e.kdtree.items) : ColourFromStoredIds(e, k)
    /\ \A c \in DOMAIN e.blocks.blocks :
            ~Partial(e, c) => StoredIdIsPosition(e, c)

(* C23: for every texel of the index, for palettes of any length, the
   palette colours at the stored foreground and background ids are the
   colours the texel's colour was computed from, and the id stored for
   palette position i identifies position i *)
C23_StoredIdsNameTheColours ==
    pc = "ready" => IdsNameTheColours(ansifier.val)

(* C23 for the palettes whose positions all fit a u8: up to 256 colours *)
C23_UpTo256Colors ==
    (pc = "ready" /\ Len(ansifier.val.palette.colors) <= U8Range) =>
        IdsNameTheColours(ansifier.val)

----------------------------------------------------------------------------
(* Painting against quantization *)

(* The pixels process puts for a source pixel whose selected texel is t *)
PaintedCell(e, t) == PixelWrites(e, 0, 0, t)

(* The mean of channel c over the painted cell, as a rational *)
CellMean(e, t, c) ==
    LET ws == PaintedCell(e, t)
    IN  Rat(SumSeq([n \in 1..Len(ws) |-> ws[n].color[c]]), Len(ws))

(* The mean of the painted cell of the item at place k is the item's colour
   times 255, and a texel of coverage 0 or 1 paints with one id only *)
PaintsItsColour(e, k) ==
    LET point == e.kdtree.items[k][1]
        t == e.kdtree.items[k][2]
        ws == PaintedCell(e, t)
    IN  /\ \A c \in 1..3 : CellMean(e, t, c) = RMul(point[c], Rat(ChannelMax, 1))
        /\ Coverage(e, t.block) = 0 =>
                \A n \in 1..Len(ws) :
                    ws[n].color = e.palette.colors[t.background_color + 1]
        /\ Coverage(e, t.block) = CellArea(e) =>
                \A n \in 1..Len(ws) :
                    ws[n].color = e.palette.colors[t.foreground_color + 1]

(* C24: for every texel of an engine with at most 256 palette colours, the
   per-channel mean of the cell process paints for the texel is the texel's
   colour times 255, exactly; the sentinel id of a texel of coverage 0 or 1
   contributes no pixel to the cell *)
C24_PaintedMeanIsTexelColour ==
    (pc = "ready" /\ Len(ansifier.val.palette.colors) <= MaxPaletteColors) =>
        \A k \in 1..Len(ansifier.val.kdtree.items) :
            PaintsItsColour(ansifier.val, k)

(* An engine with a blend of two different colours and a full-coverage
   texel of a colour other than the one at the sentinel id *)
C24_Witness ==
    /\ pc = "ready"
    /\ Len(ansifier.val.palette.colors) <= MaxPaletteColors
    /\ LET e == ansifier.val
       IN  /\ \E k \in 1..Len(e.kdtree.items) :
                LET t == e.kdtree.items[k][2]
                IN  /\ Partial(e, t.block)
                    /\ \E n, m \in 1..Len(PaintedCell(e, t)) :
                            PaintedCell(e, t)[n].color # PaintedCell(e, t)[m].color
           /\ \E k \in 1..Len(e.kdtree.items) :
                LET t == e.kdtree.items[k][2]
                IN  /\ Coverage(e, t.block) = CellArea(e)
                    /\ e.palette.colors[t.foreground_color + 1]
                            # e.palette.colors[SentinelId + 1]

----------------------------------------------------------------------------
(* What the LUT refers to in the map *)

(* The pixel px of map row 1 holds the bitmap: bit i + k * width is set
   exactly where the cell pixel in column i, row k is foreground *)
HoldsBitmap(e, px, bitmap) ==
    \A ik \in (0..(e.blocks.width - 1)) \X (0..(e.blocks.height - 1)) :
        ChannelBit(px, ik[1] + ik[2] * e.blocks.width) = 1
            <=> bitmap[ik[2] + 1][ik[1] + 1]

(* Column id of map row 0 was written: it holds palette colour id *)
Row0Populated(e, map, id) ==
    /\ id < Len(e.palette.colors)
    /\ map.px[<<id, 0>>] = e.palette.colors[id + 1] \o <<Alpha>>

(* C25: every LUT pixel of a generation that returned has a foreground id
   and a background id below palette.len() and a glyph index below the
   number of glyphs; the entries of map row 0 at the two ids are populated,
   and the entry of map row 1 at the glyph index is the bitmap of the glyph
   of the texel the pixel was made from *)
C25_LutRefersToPopulatedMap ==
    ret.tag = "Tables" =>
        LET e == ansifier.val
        IN  \A a \in DOMAIN ret.lut.px :
                LET px == ret.lut.px[a]
                    texel == ret.nearest[a][2]
                IN  /\ Row0Populated(e, ret.map, px[1])
                    /\ Row0Populated(e, ret.map, px[2])
                    /\ px[3] < Cardinality(DOMAIN e.blocks.blocks)
                    /\ HoldsBitmap(e, ret.map.px[<<px[3], 1>>],
                                   e.blocks.blocks[texel.block])

(* The tables of an engine with 256 glyphs, of a build whose `i += 1` wraps:
   a LUT pixel refers to the last glyph, index 255 *)
C25_Witness ==
    /\ ret.tag = "Tables"
    /\ Cardinality(DOMAIN ansifier.val.blocks.blocks) = MaxBlocks
    /\ \E a \in DOMAIN ret.lut.px : ret.lut.px[a][3] = MaxBlocks - 1

----------------------------------------------------------------------------
(* The size calculate_new_dimensions hands on *)

(* Only a width of 1 or more, or only a height of 1 or more, is requested *)
RequestsOneSide(r) ==
    \/ OnlyWidth(r) /\ r.desired[1].val >= 1
    \/ OnlyHeight(r) /\ r.desired[2].val >= 1

(* C28: for an original of width and height 1 or more, a cell of sides 1 or
   more and a request of only a width of 1 or more or only a height of 1 or
   more, both returned dimensions are 1 or more and below the saturation
   value of the cast to u32 *)
C28_DimensionsNeverEmpty ==
    (/\ ret.tag = "Dimensions"
     /\ HasAspect(ret)
     /\ RequestsOneSide(ret)) =>
        \A n \in 1..2 : ret.value[n] # U32(0) /\ ret.value[n] # U32Max

----------------------------------------------------------------------------
(* The writes of the parallel LUT pass *)

(* The LUT loop of the running par_generate_lut_and_map has joined *)
LutPassDone == pc \in {"par_row0", "par_row1"}

(* No address is written twice, and after the pass each was written once *)
WrittenOnce ==
    /\ pc \in {"par_lut", "par_row0", "par_row1"} =>
            \A a \in DOMAIN par.val.puts : par.val.puts[a] <= 1
    /\ LutPassDone => \A a \in DOMAIN par.val.puts : par.val.puts[a] = 1

(* C22: in the parallel LUT pass every address is written exactly once, no
   destination pixel is written by two workers, and no worker acquires a
   lock shared by all workers to write *)
C22_DisjointWritesWithoutLock ==
    /\ WrittenOnce
    /\ pc \in {"par_lut", "par_row0", "par_row1"} => par.val.locks = 0

(* What the code does: every address is written exactly once, each write
   made while holding the one mutex of the LUT *)
C22_WrittenOnceUnderTheMutex ==
    /\ WrittenOnce
    /\ pc \in {"par_lut", "par_row0", "par_row1"} =>
            par.val.locks = Cardinality({a \in DOMAIN par.val.puts :
                                            par.val.puts[a] = 1})

----------------------------------------------------------------------------
(* The engine the OBS filter holds *)

(* update has returned and is the most recent call on the filter *)
AfterUpdate == pc = "obs_live" /\ called # None /\ called.val.kind = "update"

(* The held engine and textures are what the paths of the most recent
   call build: absent when a path is unset or a load failed *)
HeldIsBuiltFromLatestPaths ==
    filter.val.ansifier_data \in
        AnsifierDataOf[called.val.settings.palette_path,
                       called.val.settings.blocks_path]

(* C21: after any sequence of update calls the held engine and its LUT and
   Map textures are the ones built from the palette path and the blocks
   path of the most recent update, absent when a path is unset or a load
   failed *)
C21_HeldEngineIsOfLatestUpdate ==
    AfterUpdate => HeldIsBuiltFromLatestPaths

(* C26: an update whose palette path and blocks path both equal those of
   the immediately preceding update neither rebuilds nor replaces the held
   engine and textures *)
C26_SamePathsKeepTheEngine ==
    (AfterUpdate /\ called.val.same_paths) => ~called.val.assigned

----------------------------------------------------------------------------
(* The GIF of the webcam loop *)

(* The loop has exited, on a break or on an error, and there was an
   output file *)
WebcamLoopExited ==
    pc = "webcam_done" /\ webcam # None /\ webcam.val.encoder

(* C27: in webcam mode with an output file, every frame that was processed
   and shown by the window is encoded into the GIF, in capture order and
   exactly once, by the time the loop exits *)
C27_EveryShownFrameIsEncoded ==
    WebcamLoopExited => webcam.val.gif = webcam.val.window

(* What the code does: the GIF holds the shown frames in capture order,
   each once, except that the last one shown can be missing *)
C27_GifIsShownFramesButMaybeLast ==
    WebcamLoopExited =>
        \/ webcam.val.gif = webcam.val.window
        \/ /\ webcam.val.window # <<>>
           /\ webcam.val.gif =
                SubSeq(webcam.val.window, 1, Len(webcam.val.window) - 1)

====
